---------------------------- MODULE Spec2Model ----------------------------
(***************************************************************************)
(* A model of src/src/unified_media_converter.py: the overlap-add          *)
(* convolution engine (overlap_add_convolve_wav), the band chain and its   *)
(* frequency response (peaking_eq_response, lowpass_response,              *)
(* highpass_response, compute_total_response, design_linear_phase_fir,     *)
(* UnifiedApp._effective_bands) and the Worker threads that run the FIR    *)
(* pipeline (Worker.run, Worker._apply_eq, UnifiedApp.start_queue).        *)
(*                                                                         *)
(* Three specifications share the variables:                               *)
(*   SpecConv  one call of overlap_add_convolve_wav, block by block;       *)
(*   SpecDsp   the band editor and the pure DSP functions applied to it;   *)
(*   SpecApp   the task queue, its Worker threads and the temp files.      *)
(* Each specification leaves the variables of the others at their idle     *)
(* values.                                                                 *)
(***************************************************************************)
EXTENDS Integers, Sequences, FiniteSets, TLC

VARIABLES
    \* ---- overlap_add_convolve_wav (one call) ----
    nch,          \* wf_in.getnchannels()
    sw,           \* wf_in.getsampwidth()
    in_frames,    \* the frames of in_wav, each a tuple of nch int16 samples
    fir,          \* the filter coefficients
    block_size,   \* the block_size argument
    task_id,      \* the task_id argument ("" models None / an empty id)
    cpc,          \* position in the function: start, loop, done, raised
    exc,          \* the exception that left the function, "" if none
    rpos,         \* frames of wf_in read so far
    out_opened,   \* whether out_wav has been opened for writing
    out_frames,   \* frames written to wf_out so far
    overlap,      \* the carried tail, a matrix of rows of nch values
    processed,    \* the frame counter
    ui_queue,     \* the events put on the channel, oldest first
    \* ---- the band chain and the pure DSP functions ----
    bands,        \* the band list handed to the functions
    n_taps,       \* the n_taps argument of design_linear_phase_fir
    dsp_pc,       \* which function has been applied: idle, effective,
                  \* response, design
    eff_out,      \* the list _effective_bands returned
    H_out,        \* the responses compute_total_response returned, one for
                  \* each frequency of QueryFreqs
    fir_out,      \* the coefficients design_linear_phase_fir returned
    \* ---- the application: task queue, Worker threads, files ----
    clock,        \* int(time.time()), the wall clock in whole seconds
    _tasks,       \* UnifiedApp._tasks, the task list
    _workers,     \* UnifiedApp._workers: task id -> index into workers
    workers,      \* every Worker thread started so far, in start order
    files,        \* the temp and output files that exist: path -> content
    \* ---- the band editor: Band objects by identity ----
    heap,         \* the Band objects allocated so far: identity -> fields
    ab_a,         \* UnifiedApp.ab_a: <<>> for None, else <<the saved list>>
    ab_b,         \* UnifiedApp.ab_b, likewise
    _ab_state,    \* UnifiedApp._ab_state: "" while unset, then "A" or "B"
    edits         \* the number of editor operations performed

convVars == <<nch, sw, in_frames, fir, block_size, task_id, cpc, exc, rpos,
              out_opened, out_frames, overlap, processed>>

dspVars == <<bands, n_taps, dsp_pc, eff_out, H_out, fir_out>>

appVars == <<clock, _tasks, _workers, workers, files>>

editVars == <<heap, ab_a, ab_b, _ab_state, edits>>

vars == <<convVars, ui_queue, dspVars, appVars, editVars>>

(* What the actions of one specification leave alone. *)
otherThanConv == <<dspVars, appVars, editVars>>
otherThanDsp == <<convVars, ui_queue, appVars, editVars>>
otherThanApp == <<convVars, n_taps, dsp_pc, eff_out, H_out, fir_out, editVars>>
otherThanEdit == <<convVars, ui_queue, n_taps, dsp_pc, eff_out, H_out, fir_out,
                   clock, files>>

---------------------------------------------------------------------------
(* Bounds of the model. *)
MaxFrames == 3
MaxTaps == 3
MaxBlock == 3
MaxBands == 2

(* Sample values of the input signal and filter taps.  The taps are        *)
(* integers: the engine is linear in the taps, and integer taps keep the   *)
(* arithmetic of the model exact.                                          *)
SampleVals == {-20000, 3}
FirCoefs == {-1, 2}
SampWidths == {2, 3}
ChannelCounts == {1, 2}
TaskIds == {"", "t1"}

---------------------------------------------------------------------------
(* Integer and rational helpers. *)
Min(a, b) == IF a <= b THEN a ELSE b
Max(a, b) == IF a >= b THEN a ELSE b
Abs(a) == IF a < 0 THEN -a ELSE a

RECURSIVE Gcd(_, _)
Gcd(a, b) == IF b = 0 THEN Abs(a) ELSE Gcd(b, a % b)

(* A float is modelled as a rational number, a pair <<n, d>> in lowest      *)
(* terms with d > 0; <<0, 0>> is the result of a division by zero (nan).   *)
RNaN == <<0, 0>>
Rat(n, d) ==
    IF d = 0 THEN RNaN
    ELSE LET g == Gcd(Abs(n), Abs(d))
             s == IF d < 0 THEN -1 ELSE 1
         IN  <<(s * n) \div g, (s * d) \div g>>
RInt(n) == <<n, 1>>
RIsNaN(a) == a[2] = 0
RLe(a, b) == ~RIsNaN(a) /\ ~RIsNaN(b) /\ a[1] * b[2] <= b[1] * a[2]
RLt(a, b) == ~RIsNaN(a) /\ ~RIsNaN(b) /\ a[1] * b[2] < b[1] * a[2]
RMin(a, b) == IF RLe(a, b) THEN a ELSE b
RMax(a, b) == IF RLe(b, a) THEN a ELSE b
(* Sums over the least common denominator and products after cancelling   *)
(* across, which keeps the intermediate integers small.                    *)
RAdd(a, b) ==
    IF a[2] = 0 \/ b[2] = 0 THEN RNaN
    ELSE LET g == Gcd(a[2], b[2])
         IN  Rat(a[1] * (b[2] \div g) + b[1] * (a[2] \div g), (a[2] \div g) * b[2])
RMul(a, b) ==
    IF a[2] = 0 \/ b[2] = 0 THEN RNaN
    ELSE LET g1 == Gcd(Abs(a[1]), b[2])
             g2 == Gcd(Abs(b[1]), a[2])
         IN  Rat((a[1] \div g1) * (b[1] \div g2), (a[2] \div g2) * (b[2] \div g1))
RInv(a) == Rat(a[2], a[1])
RDiv(a, b) == IF a[2] = 0 \/ b[1] = 0 THEN RNaN ELSE RMul(a, RInv(b))
RNeg(a) == <<-a[1], a[2]>>
RSub(a, b) == RAdd(a, RNeg(b))
RAbs(a) == <<Abs(a[1]), a[2]>>

RECURSIVE RSum(_, _)
RSum(h, i) == IF i = 0 THEN RInt(0) ELSE RAdd(h[i], RSum(h, i - 1))

(* x > 1e-12.  Every positive rational of the model has a numerator >= 1   *)
(* and a denominator below 2^31, so it exceeds 1e-12.                      *)
GtEps12(x) == ~RIsNaN(x) /\ x[1] > 0

(* A complex number (a + b j) / d is a triple <<a, b, d>> in lowest terms   *)
(* with d > 0; <<0, 0, 0>> is the result of a division by zero (numpy      *)
(* yields nan or inf parts and goes on).                                   *)
CNaN == <<0, 0, 0>>
Cx(a, b, d) ==
    IF d = 0 THEN CNaN
    ELSE LET g == Gcd(Gcd(Abs(a), Abs(b)), Abs(d))
             s == IF d < 0 THEN -1 ELSE 1
         IN  <<(s * a) \div g, (s * b) \div g, (s * d) \div g>>
COne == <<1, 0, 1>>
CReal(r) == Cx(r[1], 0, r[2])
CAdd(x, y) ==
    IF x[3] = 0 \/ y[3] = 0 THEN CNaN
    ELSE LET g == Gcd(x[3], y[3])
             p == y[3] \div g
             q == x[3] \div g
         IN  Cx(x[1] * p + y[1] * q, x[2] * p + y[2] * q, q * y[3])
CMul(x, y) == Cx(x[1] * y[1] - x[2] * y[2], x[1] * y[2] + x[2] * y[1], x[3] * y[3])
(* x / y = x conj(y) / |y|^2, after cancelling the common factors of the    *)
(* parts of y and of the two numerators.                                   *)
CDiv(x, y) ==
    IF x[3] = 0 \/ y[3] = 0 \/ (y[1] = 0 /\ y[2] = 0) THEN CNaN
    ELSE LET gy == Gcd(Abs(y[1]), Abs(y[2]))
             c == y[1] \div gy
             e == y[2] \div gy
             gx == Max(1, Gcd(Abs(x[1]), Abs(x[2])))
             a == x[1] \div gx
             b == x[2] \div gx
             k == Rat(gx * (y[3] \div Gcd(y[3], x[3])), gy * (x[3] \div Gcd(y[3], x[3])))
             n == c * c + e * e
             re == RMul(k, Rat(a * c + b * e, n))
             im == RMul(k, Rat(b * c - a * e, n))
             g == Gcd(re[2], im[2])
         IN  Cx(re[1] * (im[2] \div g), im[1] * (re[2] \div g),
                (re[2] \div g) * im[2])
CNeg(x) == <<-x[1], -x[2], x[3]>>
CConj(x) == <<x[1], -x[2], x[3]>>
CRe(x) == Rat(x[1], x[3])

---------------------------------------------------------------------------
(* numpy array helpers; a matrix is a sequence of rows, a row a sequence   *)
(* of nch numbers.  Python indices are 0-based, sequences here 1-based.    *)

(* a[lo:hi] *)
Slice(a, lo, hi) ==
    LET l == Min(lo, Len(a))
        h == Min(hi, Len(a))
    IN  IF h <= l THEN <<>> ELSE [k \in 1..(h - l) |-> a[l + k]]

(* np.zeros((r, n)) *)
Zeros(r, n) == [k \in 1..r |-> [c \in 1..n |-> 0]]

(* Whether numpy can add an (a, n) to a (b, n) array: equal row counts, or *)
(* one of them a single row that is broadcast.                             *)
CanBroadcast(a, b) == a = b \/ a = 1 \/ b = 1

(* A + B under numpy's broadcasting (defined when CanBroadcast). *)
BroadcastAdd(A, B) ==
    LET a == Len(A)
        b == Len(B)
        r == IF a = b THEN a ELSE IF a = 1 THEN b ELSE a
    IN  [k \in 1..r |->
            LET ra == IF a = 1 THEN A[1] ELSE A[k]
                rb == IF b = 1 THEN B[1] ELSE B[k]
            IN  [c \in 1..Len(ra) |-> ra[c] + rb[c]]]

(* A variant of Clip16 without the clip: the conversion to int16 wraps. *)
Clip16Wrap(v) == ((v + 32768) % 65536) - 32768

(* np.clip(v, -32767, 32767).astype(np.int16) of one value *)
Clip16(v) == Max(-32767, Min(32767, v))
ClipRows(A) == [k \in 1..Len(A) |-> [c \in 1..Len(A[k]) |-> Clip16(A[k][c])]]

RECURSIVE BitLength(_)
BitLength(n) == IF n = 0 THEN 0 ELSE 1 + BitLength(Abs(n) \div 2)

RECURSIVE Pow2(_)
Pow2(n) == IF n = 0 THEN 1 ELSE 2 * Pow2(n - 1)

(* A variant of next_pow2 that shifts by the bit length of x itself. *)
NextPow2OfX(x) == Pow2(BitLength(x))

(* 1 << (x - 1).bit_length() *)
next_pow2(x) == Pow2(BitLength(x - 1))

---------------------------------------------------------------------------
(* The FFT product of one block.  np.fft.irfft(rfft(x, N) * rfft(fir, N))  *)
(* is the circular convolution of length N of x and fir, both zero-padded  *)
(* to N; the model computes that sum directly.                             *)

FirPad(h, j) == IF j < Len(h) THEN h[j + 1] ELSE 0

RECURSIVE CircSum(_, _, _, _, _, _)
CircSum(data, ch, h, N, k, i) ==
    IF i = 0 THEN 0
    ELSE data[i][ch] * FirPad(h, (k - (i - 1)) % N)
         + CircSum(data, ch, h, N, k, i - 1)

(* Row k (0-based) of Y, the (N, nch) block result. *)
YRow(data, h, N, n, k) == [c \in 1..n |-> CircSum(data, c, h, N, k, Len(data))]

(* Y[lo:hi, :] *)
YSlice(data, h, N, n, lo, hi) ==
    LET l == Min(lo, N)
        u == Min(hi, N)
    IN  IF u <= l THEN <<>>
        ELSE [k \in 1..(u - l) |-> YRow(data, h, N, n, l + k - 1)]

(* A variant of BlockStep whose transform size covers the block alone,     *)
(* next_pow2(block_size), without the L - 1 rows of the tail.              *)
BlockStepShortFft(data, ov, h, B, n) ==
    LET Lh == Len(h)
        N == next_pow2(B)
        m == Len(data)
        Ym == YSlice(data, h, N, n, 0, m)
        Om == Slice(ov, 0, m)
        ok == CanBroadcast(Len(Ym), Len(Om))
        overlap_new == YSlice(data, h, N, n, m, m + (Lh - 1))
    IN  [ok |-> ok,
         out_block |-> IF ok THEN ClipRows(BroadcastAdd(Ym, Om)) ELSE <<>>,
         padded |-> Len(overlap_new) < Lh - 1,
         overlap |-> IF Len(overlap_new) < Lh - 1
                     THEN overlap_new \o Zeros((Lh - 1) - Len(overlap_new), n)
                     ELSE overlap_new]

(* One pass of the while loop body on the block `data` with the carried    *)
(* tail `ov`: whether the addition is defined, the frames written, whether *)
(* the zero-padding branch of lines 299-301 ran, and the new tail.         *)
BlockStep(data, ov, h, B, n) ==
    LET Lh == Len(h)
        N == next_pow2(B + Lh - 1)
        m == Len(data)
        Ym == YSlice(data, h, N, n, 0, m)
        Om == Slice(ov, 0, m)
        ok == CanBroadcast(Len(Ym), Len(Om))
        overlap_new == YSlice(data, h, N, n, m, m + (Lh - 1))
    IN  [ok |-> ok,
         out_block |-> IF ok THEN ClipRows(BroadcastAdd(Ym, Om)) ELSE <<>>,
         padded |-> Len(overlap_new) < Lh - 1,
         overlap |-> IF Len(overlap_new) < Lh - 1
                     THEN overlap_new \o Zeros((Lh - 1) - Len(overlap_new), n)
                     ELSE overlap_new]

(* An event of the channel.  The code puts (typ, payload) tuples; the      *)
(* model keeps the parts of the payload apart: `task` is the task id the   *)
(* payload carries ("" when it carries none), `pct` the progress value,    *)
(* `text` the message.                                                     *)
(* `src` is the thread that put the event, 0 for the caller of a single   *)
(* convolution and the index of the Worker otherwise; it is not part of    *)
(* the payload.                                                            *)
Event(src, typ, task, pct, text) ==
    [src |-> src, typ |-> typ, task |-> task, pct |-> pct, text |-> text]
ProgressEvent(src, task, pct) == Event(src, "progress", task, pct, "")

(* Variants of Pct with a slip in the arithmetic: the share of the frames   *)
(* still to do, and the fraction without the factor 100.                   *)
PctRemaining(p, total) == RMin(RInt(100), Rat((total - p) * 100, total))
PctFraction(p, total) == RMin(RInt(100), Rat(p, total))

(* min(100.0, (processed / total_frames) * 100.0) *)
Pct(p, total) == RMin(RInt(100), Rat(p * 100, total))

---------------------------------------------------------------------------
(* The band chain and the DSP functions.                                   *)
(*                                                                         *)
(* Frequencies are integers in Hz.  math.cos, math.sin and np.exp are      *)
(* tabulated at the frequencies the model uses, for the sample rate FS:    *)
(* exactly at 0, fs/4 and fs/2, and at the other entries by the cosine and *)
(* sine of the angle with these rational values, which lies within 1 Hz of *)
(* the entry.  10**(g/40) and 2**(bw/2) are tabulated likewise, and        *)
(* 1/math.sqrt(2) is the rational InvSqrt2.                                *)

FS == 44100

Band(type, f, width_type, width, g, muted, solo, invert) ==
    [type |-> type, f |-> f, width_type |-> width_type, width |-> width,
     g |-> g, muted |-> muted, solo |-> solo, invert |-> invert]

(* <<cos(2 pi f / fs), sin(2 pi f / fs)>> *)
Trig(f, fs) ==
    CASE f = 0     -> <<RInt(1), RInt(0)>>
      [] f = 4517  -> <<Rat(4, 5), Rat(3, 5)>>
      [] f = 6508  -> <<Rat(3, 5), Rat(4, 5)>>
      [] f = 11025 -> <<RInt(0), RInt(1)>>
      [] f = 15542 -> <<Rat(-3, 5), Rat(4, 5)>>
      [] f = 17533 -> <<Rat(-4, 5), Rat(3, 5)>>
      [] f = 22050 -> <<RInt(-1), RInt(0)>>
Cos(f, fs) == Trig(f, fs)[1]
Sin(f, fs) == Trig(f, fs)[2]

(* 10**(g / 20.0), the gain a band would get from the amplitude ratio      *)
(* instead of its square root.                                             *)
Pow10_20(g) ==
    CASE g = 0   -> RInt(1)
      [] g = 12  -> RInt(4)
      [] g = -12 -> Rat(1, 4)
      [] g = 24  -> RInt(16)
      [] g = -24 -> Rat(1, 16)

(* 10**(g / 40.0), g in dB: 12 dB gives 1.9953, tabulated as 2. *)
Pow10_40(g) ==
    CASE g = 0   -> RInt(1)
      [] g = 12  -> RInt(2)
      [] g = -12 -> Rat(1, 2)
      [] g = 24  -> RInt(4)
      [] g = -24 -> Rat(1, 4)

(* 2**(bw / 2) *)
Pow2Half(bw) ==
    CASE bw = RInt(2)  -> RInt(2)
      [] bw = RInt(4)  -> RInt(4)
      [] bw = RInt(14) -> RInt(128)

(* 1 / math.sqrt(2) = 0.70711, as the rational 12/17 = 0.70588 *)
InvSqrt2 == Rat(12, 17)

CFromR(re, im) == Cx(re[1] * im[2], im[1] * re[2], re[2] * im[2])
CScale(r, z) == CMul(CReal(r), z)

(* np.exp(-1j * ws) with ws = 2 pi f / fs *)
ExpNegJ(f, fs) == CFromR(Cos(f, fs), RNeg(Sin(f, fs)))

(* (b0 + b1 z1 + b2 z2) / (a0 + a1 z1 + a2 z2) at the frequency f *)
Biquad(b0, b1, b2, a0, a1, a2, f, fs) ==
    LET z1 == ExpNegJ(f, fs)
        z2 == CMul(z1, z1)
        num == CAdd(CReal(b0), CAdd(CScale(b1, z1), CScale(b2, z2)))
        den == CAdd(CReal(a0), CAdd(CScale(a1, z1), CScale(a2, z2)))
    IN  CDiv(num, den)

(* The Q peaking_eq_response derives from the band's width *)
PeakingQ(band, fs) ==
    LET f0 == Max(1, Min(band.f, fs \div 2 - 1))
    IN  IF band.width_type = "q"
        THEN RMax(Rat(1, 100), band.width)
        ELSE LET bw == RMax(Rat(1, 1000), band.width)
                 f2 == RMul(RInt(f0), Pow2Half(bw))
                 f1 == RDiv(RInt(f0), Pow2Half(bw))
                 denom == RSub(f2, f1)
             IN  IF GtEps12(denom) THEN RDiv(RInt(f0), denom) ELSE RInt(1)

(* peaking_eq_response at one query frequency f *)
peaking_eq_response(band, f, fs) ==
    LET f0 == Max(1, Min(band.f, fs \div 2 - 1))
        G == Pow10_40(band.g)
        Q == PeakingQ(band, fs)
        cosw0 == Cos(f0, fs)
        sinw0 == Sin(f0, fs)
        alpha == RDiv(sinw0, RMul(RInt(2), Q))
        b0 == RAdd(RInt(1), RMul(alpha, G))
        b1 == RMul(RInt(-2), cosw0)
        b2 == RSub(RInt(1), RMul(alpha, G))
        a0 == RAdd(RInt(1), RDiv(alpha, G))
        a1 == RMul(RInt(-2), cosw0)
        a2 == RSub(RInt(1), RDiv(alpha, G))
        H == Biquad(b0, b1, b2, a0, a1, a2, f, fs)
    IN  IF band.invert THEN CNeg(H) ELSE H

(* lowpass_response at one query frequency f *)
lowpass_response(fc, f, fs) ==
    LET Q == InvSqrt2
        cosw0 == Cos(fc, fs)
        sinw0 == Sin(fc, fs)
        alpha == RDiv(sinw0, RMul(RInt(2), Q))
        b0 == RDiv(RSub(RInt(1), cosw0), RInt(2))
        b1 == RSub(RInt(1), cosw0)
        b2 == RDiv(RSub(RInt(1), cosw0), RInt(2))
        a0 == RAdd(RInt(1), alpha)
        a1 == RMul(RInt(-2), cosw0)
        a2 == RSub(RInt(1), alpha)
    IN  Biquad(b0, b1, b2, a0, a1, a2, f, fs)

(* highpass_response at one query frequency f *)
highpass_response(fc, f, fs) ==
    LET Q == InvSqrt2
        cosw0 == Cos(fc, fs)
        sinw0 == Sin(fc, fs)
        alpha == RDiv(sinw0, RMul(RInt(2), Q))
        b0 == RDiv(RAdd(RInt(1), cosw0), RInt(2))
        b1 == RNeg(RAdd(RInt(1), cosw0))
        b2 == RDiv(RAdd(RInt(1), cosw0), RInt(2))
        a0 == RAdd(RInt(1), alpha)
        a1 == RMul(RInt(-2), cosw0)
        a2 == RSub(RInt(1), alpha)
    IN  Biquad(b0, b1, b2, a0, a1, a2, f, fs)

(* The response of one band inside the loop of compute_total_response. *)
BandResponse(b, f, fs) ==
    IF b.type = "parametric" THEN peaking_eq_response(b, f, fs)
    ELSE IF b.type = "lowpass" THEN lowpass_response(b.f, f, fs)
    ELSE IF b.type = "highpass" THEN highpass_response(b.f, f, fs)
    ELSE COne

(* compute_total_response at one query frequency f *)
RECURSIVE TotalResponseUpTo(_, _, _, _)
TotalResponseUpTo(bs, i, f, fs) ==
    IF i = 0 THEN COne
    ELSE CMul(TotalResponseUpTo(bs, i - 1, f, fs), BandResponse(bs[i], f, fs))

(* A variant of compute_total_response that leaves muted bands out. *)
TotalResponseUnmuted(bs, f, fs) ==
    LET kept == SelectSeq(bs, LAMBDA b : ~b.muted)
    IN  TotalResponseUpTo(kept, Len(kept), f, fs)

(* A variant of compute_total_response that assigns the response of each   *)
(* band instead of multiplying it in, so the last band alone remains.      *)
TotalResponseLastBand(bs, f, fs) ==
    IF Len(bs) = 0 THEN COne ELSE BandResponse(bs[Len(bs)], f, fs)

compute_total_response(bs, f, fs) == TotalResponseUpTo(bs, Len(bs), f, fs)

(* np.linspace(0, fs/2, n_freq//2 + 1)[k], k 0-based *)
Linspace(k, fs, N) == (k * fs) \div N

(* exp(2 pi j e / N) for N in {2, 4}: a power of j *)
Twiddle(N, e) ==
    LET q == ((4 \div N) * e) % 4
    IN  CASE q = 0 -> <<1, 0, 1>>
          [] q = 1 -> <<0, 1, 1>>
          [] q = 2 -> <<-1, 0, 1>>
          [] q = 3 -> <<0, -1, 1>>

RECURSIVE IfftSum(_, _, _, _)
IfftSum(full, N, n, k) ==
    IF k = 0 THEN <<0, 0, 1>>
    ELSE CAdd(CMul(full[k], Twiddle(N, (k - 1) * n)), IfftSum(full, N, n, k - 1))

(* np.fft.ifft(full)[n], n 0-based *)
Ifft(full, N, n) == CMul(Cx(1, 0, N), IfftSum(full, N, n, N))

(* np.hanning(N)[n] = 0.5 - 0.5 cos(2 pi n / (N - 1)), for N in {2, 4} *)
Hanning(N, n) ==
    LET c == IF N = 2 \/ n % 3 = 0 THEN RInt(1) ELSE Rat(-1, 2)
    IN  RSub(Rat(1, 2), RMul(Rat(1, 2), c))

(* The steps of design_linear_phase_fir, each on the value of the step      *)
(* before it.  WithVal(v, F) is F(v) with v evaluated once.                *)
WithVal(v, F(_)) == CHOOSE r \in {F(x) : x \in {v}} : TRUE

(* A variant of Mirror that appends the reversed bins unconjugated. *)
MirrorNoConj(H_pos, N) ==
    H_pos \o [i \in 1..(N \div 2 - 1) |-> H_pos[N \div 2 + 1 - i]]

(* np.concatenate([H_pos, np.conj(H_pos[-2:0:-1])]) *)
Mirror(H_pos, N) ==
    H_pos \o [i \in 1..(N \div 2 - 1) |-> CConj(H_pos[N \div 2 + 1 - i])]

(* np.real(np.fft.ifft(full)) * np.hanning(len(h)) *)
Windowed(full, N) ==
    [n \in 1..N |-> RMul(CRe(Ifft(full, N, n - 1)), Hanning(N, n - 1))] \o <<>>

(* A variant of Normalized without the guard on s. *)
NormalizedAlways(hw, s) == [n \in 1..Len(hw) |-> RDiv(hw[n], s)] \o <<>>

(* s = np.sum(h); if abs(s) > 1e-12: h /= s *)
Normalized(hw, s) ==
    IF GtEps12(RAbs(s)) THEN [n \in 1..Len(hw) |-> RDiv(hw[n], s)] \o <<>> ELSE hw

(* design_linear_phase_fir *)
design_linear_phase_fir(bs, fs, taps) ==
    LET N == IF taps % 2 # 0 THEN taps + 1 ELSE taps
        Sampled == [k \in 1..(N \div 2 + 1) |->
                       compute_total_response(bs, Linspace(k - 1, fs, N), fs)] \o <<>>
        Normalize(hw) == WithVal(RSum(hw, N), LAMBDA s : Slice(Normalized(hw, s), 0, N))
        Window(full) == WithVal(Windowed(full, N), Normalize)
        Design(H_pos) == WithVal(Mirror(H_pos, N), Window)
    IN  WithVal(Sampled, Design)

(* A variant of _effective_bands that drops muted bands also when a band   *)
(* is soloed.                                                              *)
EffectiveBandsMuteWins(bs) ==
    IF \E i \in 1..Len(bs) : bs[i].solo
    THEN SelectSeq(bs, LAMBDA b : b.solo /\ ~b.muted)
    ELSE SelectSeq(bs, LAMBDA b : ~b.muted)

(* UnifiedApp._effective_bands on the chain bs; a copy of a band is the    *)
(* same value.                                                             *)
_effective_bands(bs) ==
    IF \E i \in 1..Len(bs) : bs[i].solo
    THEN SelectSeq(bs, LAMBDA b : b.solo)
    ELSE SelectSeq(bs, LAMBDA b : ~b.muted)

(* The bands the model draws its chains from: four filter shapes, each     *)
(* with every mute/solo combination and, unmuted and unsoloed, inverted.   *)
Shapes ==
    {Band("parametric", 11025, "q", RInt(1), 12, FALSE, FALSE, FALSE),
     Band("parametric", 6508, "oct", RInt(2), -12, FALSE, FALSE, FALSE),
     Band("lowpass", 6508, "q", RInt(1), 0, FALSE, FALSE, FALSE),
     Band("highpass", 11025, "q", RInt(1), 0, FALSE, FALSE, FALSE)}
FlagSets == {<<FALSE, FALSE, FALSE>>, <<TRUE, FALSE, FALSE>>, <<FALSE, TRUE, FALSE>>,
             <<TRUE, TRUE, FALSE>>, <<FALSE, FALSE, TRUE>>}
BandUniverse ==
    {[b EXCEPT !.muted = fl[1], !.solo = fl[2], !.invert = fl[3]] :
        b \in Shapes, fl \in FlagSets}
(* Bands with a non-positive frequency or width, as _set_band stores them  *)
(* from the entry fields.                                                  *)
InvalidBands ==
    {Band("lowpass", 0, "q", RInt(1), 0, FALSE, FALSE, FALSE),
     Band("parametric", 11025, "q", RInt(0), 12, FALSE, FALSE, FALSE),
     Band("parametric", 11025, "q", RInt(-1), 12, FALSE, FALSE, FALSE)}
(* A parametric band 14 octaves wide. *)
WideBands == {Band("parametric", 11025, "oct", RInt(14), 12, FALSE, FALSE, FALSE)}
(* Parametric bands at the ends of the gain and Q ranges of the editor. *)
EdgeBands ==
    {Band("parametric", 11025, "q", Rat(1, 10), 24, FALSE, FALSE, FALSE),
     Band("parametric", 6508, "q", RInt(10), -24, FALSE, FALSE, FALSE),
     Band("parametric", 6508, "q", RInt(10), 24, FALSE, FALSE, TRUE),
     Band("parametric", 11025, "oct", RInt(4), -24, FALSE, FALSE, FALSE)}
Chains ==
    UNION {[1..len -> BandUniverse] : len \in 0..MaxBands}
        \cup {<<b>> : b \in InvalidBands \cup WideBands \cup EdgeBands}

(* The frequencies compute_total_response is queried at. *)
QueryFreqs == <<0, 6508, 11025, 22050>>
TapCounts == {1, 2, 3, 4}

ConvIdle ==
    /\ nch = 1
    /\ sw = 2
    /\ in_frames = <<>>
    /\ fir = <<>>
    /\ block_size = 0
    /\ task_id = ""
    /\ cpc = "idle"
    /\ exc = ""
    /\ rpos = 0
    /\ out_opened = FALSE
    /\ out_frames = <<>>
    /\ overlap = <<>>
    /\ processed = 0

EditIdle ==
    /\ heap = <<>>
    /\ ab_a = <<>>
    /\ ab_b = <<>>
    /\ _ab_state = ""
    /\ edits = 0

AppIdle ==
    /\ clock = 0
    /\ _tasks = <<>>
    /\ _workers = <<>>
    /\ workers = <<>>
    /\ files = <<>>
    /\ EditIdle

DspIdle ==
    /\ bands = <<>>
    /\ n_taps = 0
    /\ dsp_pc = "idle"
    /\ eff_out = <<>>
    /\ H_out = <<>>
    /\ fir_out = <<>>

InitDsp ==
    /\ ConvIdle
    /\ AppIdle
    /\ ui_queue = <<>>
    /\ bands \in Chains
    /\ n_taps = 0
    /\ dsp_pc = "idle"
    /\ eff_out = <<>>
    /\ H_out = <<>>
    /\ fir_out = <<>>

ApplyEffectiveBands ==
    /\ dsp_pc = "idle"
    /\ UNCHANGED otherThanDsp
    /\ eff_out' = _effective_bands(bands)
    /\ dsp_pc' = "effective"
    /\ UNCHANGED <<bands, n_taps, H_out, fir_out>>

ApplyTotalResponse ==
    /\ dsp_pc = "idle"
    /\ UNCHANGED otherThanDsp
    /\ H_out' = [i \in 1..Len(QueryFreqs) |->
                    compute_total_response(bands, QueryFreqs[i], FS)]
    /\ dsp_pc' = "response"
    /\ UNCHANGED <<bands, n_taps, eff_out, fir_out>>

ApplyDesignFir ==
    /\ dsp_pc = "idle"
    /\ UNCHANGED otherThanDsp
    /\ \E n \in TapCounts :
          /\ n_taps' = n
          /\ fir_out' = design_linear_phase_fir(bands, FS, n)
    /\ dsp_pc' = "design"
    /\ UNCHANGED <<bands, eff_out, H_out>>

---------------------------------------------------------------------------
(* overlap_add_convolve_wav, step by step. *)

Signals(n) ==
    UNION {[1..len -> [1..n -> SampleVals]] : len \in 0..MaxFrames}
Filters == UNION {[1..len -> FirCoefs] : len \in 1..MaxTaps}

InitConv ==
    /\ DspIdle
    /\ AppIdle
    /\ nch \in ChannelCounts
    /\ sw \in SampWidths
    /\ in_frames \in Signals(nch)
    /\ fir \in Filters
    /\ block_size \in 1..MaxBlock
    /\ task_id \in TaskIds
    /\ cpc = "start"
    /\ exc = ""
    /\ rpos = 0
    /\ out_opened = FALSE
    /\ out_frames = <<>>
    /\ overlap = <<>>
    /\ processed = 0
    /\ ui_queue = <<>>

(* A variant of ConvOpen that opens the output before it checks the sample *)
(* width.                                                                  *)
ConvOpenThenCheck ==
    /\ cpc = "start"
    /\ UNCHANGED otherThanConv
    /\ out_opened' = TRUE
    /\ IF sw # 2
       THEN /\ cpc' = "raised"
            /\ exc' = "RuntimeError"
            /\ UNCHANGED overlap
       ELSE /\ cpc' = "loop"
            /\ overlap' = Zeros(Len(fir) - 1, nch)
            /\ UNCHANGED exc
    /\ processed' = 0
    /\ UNCHANGED <<nch, sw, in_frames, fir, block_size, task_id, rpos,
                   out_frames, ui_queue>>

(* Lines 271-282: open the input, check the sample width, open the output  *)
(* and set up the session.                                                 *)
ConvOpen ==
    /\ cpc = "start"
    /\ UNCHANGED otherThanConv
    /\ IF sw # 2
       THEN /\ cpc' = "raised"
            /\ exc' = "RuntimeError"
            /\ UNCHANGED <<out_opened, overlap>>
       ELSE /\ cpc' = "loop"
            /\ out_opened' = TRUE
            /\ overlap' = Zeros(Len(fir) - 1, nch)
            /\ UNCHANGED exc
    /\ processed' = 0
    /\ UNCHANGED <<nch, sw, in_frames, fir, block_size, task_id, rpos,
                   out_frames, ui_queue>>

(* Lines 283-307: read one block, convolve, add the tail, write, carry. *)
ConvBlock ==
    /\ cpc = "loop"
    /\ UNCHANGED otherThanConv
    /\ rpos < Len(in_frames)
    /\ LET data == Slice(in_frames, rpos, rpos + block_size)
           m == Len(data)
           st == BlockStep(data, overlap, fir, block_size, nch)
       IN  /\ rpos' = rpos + m
           /\ IF ~st.ok
              THEN /\ cpc' = "raised"
                   /\ exc' = "ValueError"
                   /\ UNCHANGED <<out_frames, overlap, processed, ui_queue>>
              ELSE /\ out_frames' = out_frames \o st.out_block
                   /\ overlap' = st.overlap
                   /\ processed' = processed + m
                   /\ ui_queue' = IF task_id # ""
                                  THEN Append(ui_queue,
                                         ProgressEvent(0, task_id,
                                            Pct(processed + m, Len(in_frames))))
                                  ELSE ui_queue
                   /\ UNCHANGED <<cpc, exc>>
    /\ UNCHANGED <<nch, sw, in_frames, fir, block_size, task_id, out_opened>>

(* Lines 284-286 and 308-313: the read returns nothing, the tail is        *)
(* flushed and the completion event is put.                                *)
ConvFlush ==
    /\ cpc = "loop"
    /\ UNCHANGED otherThanConv
    /\ rpos >= Len(in_frames)
    /\ out_frames' = IF Len(overlap) > 0
                     THEN out_frames \o ClipRows(overlap)
                     ELSE out_frames
    /\ ui_queue' = IF task_id # ""
                   THEN Append(ui_queue, ProgressEvent(0, task_id, RInt(100)))
                   ELSE ui_queue
    /\ cpc' = "done"
    /\ UNCHANGED <<nch, sw, in_frames, fir, block_size, task_id, exc, rpos,
                   out_opened, overlap, processed>>

NextConv == ConvOpen \/ ConvBlock \/ ConvFlush

SpecConv == InitConv /\ [][NextConv]_vars

NextDsp == ApplyEffectiveBands \/ ApplyTotalResponse \/ ApplyDesignFir

SpecDsp == InitDsp /\ [][NextDsp]_vars

---------------------------------------------------------------------------
(* The application: files, tasks, the queue and the Worker threads. *)

MaxClock == 1
MaxLines == 2
MaxStarted == 2

(* A path: its directory, the name without number or extension, the number *)
(* formatted into a temp name (0 in a user's path) and the extension.      *)
FilePath(dir, name, n, ext) == [dir |-> dir, name |-> name, n |-> n, ext |-> ext]
NoPath == FilePath("", "", 0, "")
UserPath(name, ext) == FilePath("user", name, 0, ext)

(* os.path.join(tempfile.gettempdir(), f'umc_dec_{int(time.time())}.wav')  *)
TmpDec(t) == FilePath("tmp", "umc_dec_", t, "wav")
TmpConv(t) == FilePath("tmp", "umc_conv_", t, "wav")

VIDEO_FORMATS == {"mp4", "avi", "mkv", "mov", "wmv", "flv", "webm"}
AUDIO_FORMATS == {"mp3", "aac", "flac", "wav", "m4a", "ogg", "wma"}

get_file_type(path) ==
    IF path.ext \in VIDEO_FORMATS THEN "video"
    ELSE IF path.ext \in AUDIO_FORMATS THEN "audio"
    ELSE "unknown"

(* The content of a file: what it is (pcm, or the codec it was encoded     *)
(* with), the input it was decoded from, its length in frames and the      *)
(* filters it went through.                                                *)
Content(kind, of, nframes, filt) ==
    [kind |-> kind, of |-> of, nframes |-> nframes, filt |-> filt]

(* The length in frames, at 44100 Hz, of the audio of an input file. *)
MediaFrames(path) ==
    CASE path.name = "a" -> 1000
      [] path.name = "b" -> 1500
      [] path.name = "c" -> 48000
      [] OTHER -> 2000

(* What ffmpeg -i path ... -c:a pcm_s16le writes. *)
Decoded(path) == Content("pcm", path.name, MediaFrames(path), <<>>)

DEFAULT_N_TAPS == 2048
BLOCK_SIZE == 65536

Task(input_path, output_path, action, options, id) ==
    [input_path |-> input_path, output_path |-> output_path,
     action |-> action, options |-> options, id |-> id]

(* options.get(key, default) *)
OptGet(opt, key, default) == IF key \in DOMAIN opt THEN opt[key] ELSE default

(* UnifiedApp._add_file_to_queue: the task appended for a file *)
_add_file_to_queue(path, id) ==
    Task(path, NoPath, "pending", [k \in {} |-> ""], id)

(* create_task of the export dialog opened on task `t`: the task appended  *)
(* for a non-empty output path                                             *)
create_task(t, output_path, use_eq, use_fir, id) ==
    LET input_type == get_file_type(t.input_path)
        output_type == get_file_type(output_path)
        action == IF input_type = "video" /\ output_type = "video"
                      THEN "convert_video"
                  ELSE IF input_type = "video" /\ output_type = "audio"
                      THEN "extract_audio"
                  ELSE IF input_type = "audio" /\ output_type = "audio"
                      THEN "convert_audio"
                  ELSE "apply_eq"
        options == [format |-> output_path.ext, sr |-> FS, ch |-> 2,
                    use_eq |-> use_eq, use_fir |-> use_fir]
    IN  Task(t.input_path, output_path, action, options, id)

(* UnifiedApp._build_default_bands *)
_build_default_bands ==
    <<Band("highpass", 60, "q", RInt(1), 0, FALSE, FALSE, FALSE),
      Band("parametric", 250, "q", RInt(1), -3, FALSE, FALSE, FALSE),
      Band("parametric", 3000, "q", RInt(1), 2, FALSE, FALSE, FALSE),
      Band("lowpass", 15000, "q", RInt(1), 0, FALSE, FALSE, FALSE)>>

(* build_ffmpeg_filter: the pieces joined by ',' *)
build_ffmpeg_filter(bs) ==
    [i \in 1..Len(bs) |->
        IF bs[i].type \in {"highpass", "lowpass"}
        THEN [name |-> bs[i].type, f |-> bs[i].f, width_type |-> "",
              width |-> RInt(0), g |-> 0]
        ELSE [name |-> "equalizer", f |-> bs[i].f,
              width_type |-> IF bs[i].width_type = "q" THEN "q" ELSE "oct",
              width |-> bs[i].width, g |-> bs[i].g]]

(* ffmpeg commands, by the parts that differ: the input, the -af filter    *)
(* pieces, the codec arguments and the output.                             *)
Cmd(i, af, codec, out) == [i |-> i, af |-> af, codec |-> codec, out |-> out]
NoCmd == Cmd(NoPath, <<>>, "", NoPath)

AudioCodec(fmt) ==
    CASE fmt = "mp3" -> "libmp3lame"
      [] fmt = "flac" -> "flac"
      [] fmt = "aac" -> "aac"
      [] OTHER -> "pcm_s16le"

(* The command of the four kinds of task that run one ffmpeg: _apply_eq    *)
(* without FIR, _extract_audio, _convert_video, _convert_audio.            *)
TaskCmd(task, bs) ==
    LET fmt == OptGet(task.options, "format", "wav")
    IN  CASE task.action = "apply_eq" ->
                Cmd(task.input_path, build_ffmpeg_filter(bs), AudioCodec(fmt),
                    task.output_path)
          [] task.action = "extract_audio" ->
                Cmd(task.input_path, <<>>, AudioCodec(fmt), task.output_path)
          [] task.action = "convert_video" ->
                Cmd(task.input_path, <<>>, "libx264", task.output_path)
          [] task.action = "convert_audio" ->
                Cmd(task.input_path, <<>>,
                    IF fmt = "ogg" THEN "libvorbis" ELSE AudioCodec(fmt),
                    task.output_path)

(* Worker.__init__; `trace` lists the stages of the FIR pipeline the       *)
(* thread has entered, for the properties.  `rc` is the local rc of        *)
(* _run_cmd_with_progress: <<>> until proc.wait() has returned, then the   *)
(* exit code in a one-element list.                                        *)
Worker(task, bs) ==
    [task |-> task, bands |-> bs, pc |-> "start", _proc |-> "none",
     tmp_dec |-> NoPath, tmp_conv |-> NoPath, cmd |-> NoCmd,
     duration |-> 0, last_pct |-> RInt(0), nlines |-> 0, rc |-> <<>>,
     trace |-> <<>>]

(* The rows of a[lo:hi] for an array of `total` rows. *)
SliceRows(total, lo, hi) == Max(0, Min(hi, total) - Min(lo, total))

(* The rows of A + B under broadcasting, for operands of a and b rows. *)
BroadcastRows(a, b) == IF a = 1 THEN b ELSE a

(* overlap_add_convolve_wav on a 16-bit file of `total` frames, by the     *)
(* shapes of its arrays: whether it returned, the frames it wrote and the  *)
(* progress values it put.                                                 *)
RECURSIVE ConvBlocks(_, _, _, _, _, _, _)
ConvBlocks(total, pos, Lh, B, N, written, pcts) ==
    IF pos >= total
    THEN [ok |-> TRUE, written |-> written + Max(0, Lh - 1),
          pcts |-> Append(pcts, RInt(100))]
    ELSE LET m == Min(B, total - pos)
             a == SliceRows(N, 0, m)
             b == SliceRows(Lh - 1, 0, m)
         IN  IF ~CanBroadcast(a, b)
             THEN [ok |-> FALSE, written |-> written, pcts |-> pcts]
             ELSE ConvBlocks(total, pos + m, Lh, B, N,
                             written + BroadcastRows(a, b),
                             Append(pcts, Pct(pos + m, total)))

ConvOutcome(total, Lh, B) ==
    ConvBlocks(total, 0, Lh, B, next_pow2(B + Lh - 1), 0, <<>>)

(* len(design_linear_phase_fir(bands, sr, n)) *)
FirLen(n) == IF n % 2 # 0 THEN n + 1 ELSE n

(* The filter design_linear_phase_fir(bands, sr, n) returns, by its        *)
(* arguments.                                                              *)
FirOf(bs, sr, n) == [bands |-> bs, fs |-> sr, taps |-> n]

RemoveFile(f, p) == [q \in DOMAIN f \ {p} |-> f[q]]
WriteFile(f, p, c) == (p :> c) @@ f

(* UnifiedApp.start_queue, from task i of the list on: the threads and the *)
(* registry after the loop.                                                *)
RECURSIVE StartTasks(_, _, _, _, _)
StartTasks(ts, i, thr, reg, chain) ==
    IF i > Len(ts) THEN [workers |-> thr, _workers |-> reg]
    ELSE LET t == ts[i]
         IN  IF /\ t.action \in {"apply_eq", "extract_audio", "convert_video",
                                 "convert_audio"}
                /\ t.id \notin DOMAIN reg
             THEN LET bands_eff == IF OptGet(t.options, "use_eq", TRUE)
                                   THEN _effective_bands(chain) ELSE <<>>
                  IN  StartTasks(ts, i + 1, Append(thr, Worker(t, bands_eff)),
                                 (t.id :> Len(thr) + 1) @@ reg, chain)
             ELSE StartTasks(ts, i + 1, thr, reg, chain)

(* The exports the model draws its task lists from: three FIR exports of   *)
(* files of an extension outside the format lists (the third longer than   *)
(* the filter), and one export for each other kind of task.                *)
Export(input, output, use_eq, use_fir, id) ==
    [input |-> input, output |-> output, use_eq |-> use_eq,
     use_fir |-> use_fir, id |-> id]
FirExports ==
    {Export(UserPath("a", "opus"), UserPath("a_eq", "wav"), TRUE, TRUE, "t1"),
     Export(UserPath("b", "opus"), UserPath("b_eq", "mp3"), TRUE, TRUE, "t2"),
     Export(UserPath("c", "opus"), UserPath("c_eq", "flac"), FALSE, TRUE, "t3")}
CmdExports ==
    {Export(UserPath("d", "mp3"), UserPath("d_out", "wav"), TRUE, FALSE, "t4"),
     Export(UserPath("e", "mp4"), UserPath("e_out", "mp3"), TRUE, FALSE, "t5"),
     Export(UserPath("e", "mp4"), UserPath("e_out", "mkv"), TRUE, FALSE, "t6"),
     Export(UserPath("a", "opus"), UserPath("a_out", "flac"), TRUE, FALSE, "t7")}
PairedExports ==
    FirExports \cup {Export(UserPath("d", "mp3"), UserPath("d_out", "wav"),
                            TRUE, FALSE, "t4")}
ExportLists ==
    {<<x>> : x \in FirExports \cup CmdExports}
        \cup {xy \in FirExports \X PairedExports : xy[1] # xy[2]}

(* The task list after the files of the exports were added and each export *)
(* dialog was confirmed.                                                   *)
TasksOf(xs) ==
    [i \in 1..Len(xs) |-> _add_file_to_queue(xs[i].input, "p")]
        \o [i \in 1..Len(xs) |->
               create_task(_add_file_to_queue(xs[i].input, "p"), xs[i].output,
                           xs[i].use_eq, xs[i].use_fir, xs[i].id)]

InitApp ==
    /\ ConvIdle
    /\ EditIdle
    /\ ui_queue = <<>>
    /\ bands = _build_default_bands
    /\ n_taps = 0
    /\ dsp_pc = "idle"
    /\ eff_out = <<>>
    /\ H_out = <<>>
    /\ fir_out = <<>>
    /\ clock = 0
    /\ _tasks \in {TasksOf(xs) : xs \in ExportLists}
    /\ _workers = <<>>
    /\ workers = <<>>
    /\ files = <<>>

StartQueue ==
    /\ UNCHANGED otherThanApp
    /\ LET st == StartTasks(_tasks, 1, workers, _workers, bands)
       IN  /\ workers' = st.workers
           /\ _workers' = st._workers
    /\ UNCHANGED <<bands, ui_queue, clock, _tasks, files>>

(* The wall clock passes a second boundary. *)
Tick ==
    /\ UNCHANGED otherThanApp
    /\ clock < MaxClock
    /\ clock' = clock + 1
    /\ UNCHANGED <<bands, ui_queue, _tasks, _workers, workers, files>>

NP_AVAILABLE == TRUE

LogEvent(w, text) == Event(w, "log", "", RNaN, text)
ErrorEvent(w, text) == Event(w, "error", "", RNaN, text)
DoneEvent(w, id) == Event(w, "done", id, RNaN, "")
CmdEvent(w) == Event(w, "cmd", "", RNaN, "ffmpeg")

(* What the steps of Worker w leave alone. *)
workerFrame == <<otherThanApp, bands, _tasks, _workers>>

(* Worker.run up to the first blocking call: the dispatch on task.action,  *)
(* and in the FIR branch of _apply_eq the numpy check and the two temp     *)
(* names, each formatted from its own reading of the clock.                *)
WorkerRun(w) ==
    /\ workers[w].pc = "start"
    /\ UNCHANGED workerFrame
    /\ UNCHANGED files
    /\ LET me == workers[w]
           t == me.task
       IN  IF t.action = "apply_eq" /\ OptGet(t.options, "use_fir", FALSE)
           THEN IF ~NP_AVAILABLE
                THEN /\ ui_queue' = Append(ui_queue,
                            ErrorEvent(w, "numpy required for FIR export"))
                     /\ workers' = [workers EXCEPT ![w].pc = "finally"]
                     /\ UNCHANGED clock
                ELSE \E t2 \in {clock, Min(clock + 1, MaxClock)} :
                        /\ workers' = [workers EXCEPT
                                          ![w].tmp_dec = TmpDec(clock),
                                          ![w].tmp_conv = TmpConv(t2),
                                          ![w].pc = "decode"]
                        /\ clock' = t2
                        /\ UNCHANGED ui_queue
           ELSE IF t.action \in {"apply_eq", "extract_audio", "convert_video",
                                 "convert_audio"}
           THEN /\ workers' = [workers EXCEPT ![w].cmd = TaskCmd(t, me.bands),
                                              ![w].pc = "cmd"]
                /\ UNCHANGED <<ui_queue, clock>>
           ELSE /\ ui_queue' = Append(ui_queue,
                                      LogEvent(w, "Unknown task action"))
                /\ workers' = [workers EXCEPT ![w].pc = "finally"]
                /\ UNCHANGED clock

(* Lines 395-403: the decode by ffmpeg returns (or subprocess.call raises, *)
(* which run's handler reports); on success the two log lines and the      *)
(* filter design follow.                                                   *)
DecodeOutcomes == {"ok", "failed", "raised"}

(* A variant of WorkerDecode that reports a failed decode and goes on to   *)
(* the design and the convolution instead of returning.                    *)
WorkerDecodeNoReturn(w) ==
    /\ workers[w].pc = "decode"
    /\ UNCHANGED workerFrame
    /\ UNCHANGED clock
    /\ LET me == workers[w]
       IN  \E rc \in DecodeOutcomes :
              CASE rc = "ok" ->
                     /\ files' = WriteFile(files, me.tmp_dec,
                                           Decoded(me.task.input_path))
                     /\ ui_queue' = ui_queue \o
                            <<LogEvent(w, "Designing FIR"),
                              LogEvent(w, "Starting overlap-add convolution")>>
                     /\ workers' = [workers EXCEPT
                                       ![w].trace = Append(@, "decode"),
                                       ![w].pc = "convolve"]
                [] rc = "failed" ->
                     /\ ui_queue' = ui_queue \o
                            <<ErrorEvent(w, "ffmpeg decode failed for FIR path"),
                              LogEvent(w, "Designing FIR"),
                              LogEvent(w, "Starting overlap-add convolution")>>
                     /\ workers' = [workers EXCEPT
                                       ![w].trace = Append(@, "decode"),
                                       ![w].pc = "convolve"]
                     /\ UNCHANGED files
                [] rc = "raised" ->
                     /\ ui_queue' = Append(ui_queue,
                                           ErrorEvent(w, "Worker exception"))
                     /\ workers' = [workers EXCEPT
                                       ![w].trace = Append(@, "decode"),
                                       ![w].pc = "finally"]
                     /\ UNCHANGED files

WorkerDecode(w) ==
    /\ workers[w].pc = "decode"
    /\ UNCHANGED workerFrame
    /\ UNCHANGED clock
    /\ LET me == workers[w]
       IN  \E rc \in DecodeOutcomes :
              CASE rc = "ok" ->
                     /\ files' = WriteFile(files, me.tmp_dec,
                                           Decoded(me.task.input_path))
                     /\ ui_queue' = ui_queue \o
                            <<LogEvent(w, "Designing FIR"),
                              LogEvent(w, "Starting overlap-add convolution")>>
                     /\ workers' = [workers EXCEPT
                                       ![w].trace = Append(@, "decode"),
                                       ![w].pc = "convolve"]
                [] rc = "failed" ->
                     /\ ui_queue' = Append(ui_queue,
                            ErrorEvent(w, "ffmpeg decode failed for FIR path"))
                     /\ workers' = [workers EXCEPT
                                       ![w].trace = Append(@, "decode"),
                                       ![w].pc = "finally"]
                     /\ UNCHANGED files
                [] rc = "raised" ->
                     /\ ui_queue' = Append(ui_queue,
                                           ErrorEvent(w, "Worker exception"))
                     /\ workers' = [workers EXCEPT
                                       ![w].trace = Append(@, "decode"),
                                       ![w].pc = "finally"]
                     /\ UNCHANGED files

(* The progress events overlap_add_convolve_wav puts for Worker w. *)
ConvEvents(w, id, pcts) ==
    IF id # "" THEN [i \in 1..Len(pcts) |-> ProgressEvent(w, id, pcts[i])]
    ELSE <<>>

(* A variant of WorkerConvolve whose handler reports the failure and goes  *)
(* on to the encode step instead of returning.                             *)
WorkerConvolveNoReturn(w) ==
    /\ workers[w].pc = "convolve"
    /\ UNCHANGED workerFrame
    /\ UNCHANGED clock
    /\ LET me == workers[w]
           n == OptGet(me.task.options, "n_taps", DEFAULT_N_TAPS)
           sr == OptGet(me.task.options, "sr", FS)
       IN  IF me.tmp_dec \notin DOMAIN files
           THEN /\ ui_queue' = Append(ui_queue,
                                      ErrorEvent(w, "Convolution failed"))
                /\ workers' = [workers EXCEPT
                                  ![w].trace = Append(@, "convolve"),
                                  ![w].pc = "encode"]
                /\ UNCHANGED files
           ELSE LET pcm == files[me.tmp_dec]
                    r == ConvOutcome(pcm.nframes, FirLen(n), BLOCK_SIZE)
                    out == Content("pcm", pcm.of, r.written,
                                   Append(pcm.filt, FirOf(me.bands, sr, n)))
                IN  /\ files' = WriteFile(files, me.tmp_conv, out)
                    /\ ui_queue' = ui_queue \o
                           ConvEvents(w, me.task.id, r.pcts) \o
                           (IF r.ok THEN <<>>
                            ELSE <<ErrorEvent(w, "Convolution failed")>>)
                    /\ workers' = [workers EXCEPT
                                      ![w].trace = Append(@, "convolve"),
                                      ![w].pc = "encode"]

(* Lines 404-410: overlap_add_convolve_wav(tmp_dec, fir, tmp_conv) under   *)
(* the try; any exception is reported once and _apply_eq returns.          *)
WorkerConvolve(w) ==
    /\ workers[w].pc = "convolve"
    /\ UNCHANGED workerFrame
    /\ UNCHANGED clock
    /\ LET me == workers[w]
           n == OptGet(me.task.options, "n_taps", DEFAULT_N_TAPS)
           sr == OptGet(me.task.options, "sr", FS)
       IN  IF me.tmp_dec \notin DOMAIN files
           THEN /\ ui_queue' = Append(ui_queue,
                                      ErrorEvent(w, "Convolution failed"))
                /\ workers' = [workers EXCEPT
                                  ![w].trace = Append(@, "convolve"),
                                  ![w].pc = "finally"]
                /\ UNCHANGED files
           ELSE LET pcm == files[me.tmp_dec]
                    r == ConvOutcome(pcm.nframes, FirLen(n), BLOCK_SIZE)
                    out == Content("pcm", pcm.of, r.written,
                                   Append(pcm.filt, FirOf(me.bands, sr, n)))
                IN  /\ files' = WriteFile(files, me.tmp_conv, out)
                    /\ ui_queue' = ui_queue \o
                           ConvEvents(w, me.task.id, r.pcts) \o
                           (IF r.ok THEN <<>>
                            ELSE <<ErrorEvent(w, "Convolution failed")>>)
                    /\ workers' = [workers EXCEPT
                                      ![w].trace = Append(@, "convolve"),
                                      ![w].pc = IF r.ok THEN "encode"
                                                ELSE "finally"]

(* Lines 411-428: the encode by ffmpeg for mp3, flac and aac, run only if  *)
(* tmp_conv exists; otherwise the move of tmp_conv to the output path.     *)
WorkerEncode(w) ==
    /\ workers[w].pc = "encode"
    /\ UNCHANGED workerFrame
    /\ UNCHANGED clock
    /\ LET me == workers[w]
           fmt == OptGet(me.task.options, "format", "wav")
           entered == [me EXCEPT !.trace = Append(@, "encode")]
       IN  IF fmt \in {"mp3", "flac", "aac"}
           THEN IF me.tmp_conv # NoPath /\ me.tmp_conv \in DOMAIN files
                THEN \E rc \in {0, 1} :
                        IF rc # 0
                        THEN /\ ui_queue' = Append(ui_queue,
                                    ErrorEvent(w, "ffmpeg re-encode failed after FIR"))
                             /\ workers' = [workers EXCEPT
                                    ![w] = [entered EXCEPT !.pc = "finally"]]
                             /\ UNCHANGED files
                        ELSE LET c == files[me.tmp_conv]
                             IN  /\ files' = WriteFile(files, me.task.output_path,
                                        Content(fmt, c.of, c.nframes, c.filt))
                                 /\ workers' = [workers EXCEPT
                                        ![w] = [entered EXCEPT !.pc = "cleanup"]]
                                 /\ UNCHANGED ui_queue
                ELSE /\ workers' = [workers EXCEPT
                            ![w] = [entered EXCEPT !.pc = "cleanup"]]
                     /\ UNCHANGED <<files, ui_queue>>
           ELSE IF me.tmp_conv \in DOMAIN files
                THEN /\ files' = WriteFile(RemoveFile(files, me.tmp_conv),
                                           me.task.output_path,
                                           files[me.tmp_conv])
                     /\ workers' = [workers EXCEPT
                            ![w] = [entered EXCEPT !.tmp_conv = NoPath,
                                                   !.pc = "cleanup"]]
                     /\ UNCHANGED ui_queue
                ELSE /\ ui_queue' = Append(ui_queue,
                                           ErrorEvent(w, "Failed move WAV"))
                     /\ workers' = [workers EXCEPT
                            ![w] = [entered EXCEPT !.pc = "finally"]]
                     /\ UNCHANGED files

(* Lines 430-440: remove the temp files that exist, log the completion. *)
WorkerCleanup(w) ==
    /\ workers[w].pc = "cleanup"
    /\ UNCHANGED workerFrame
    /\ UNCHANGED clock
    /\ LET me == workers[w]
           f1 == RemoveFile(files, me.tmp_dec)
       IN  files' = IF me.tmp_conv # NoPath THEN RemoveFile(f1, me.tmp_conv)
                    ELSE f1
    /\ ui_queue' = Append(ui_queue, LogEvent(w, "FIR export complete"))
    /\ workers' = [workers EXCEPT ![w].trace = Append(@, "cleanup"),
                                  ![w].pc = "finally"]

(* ffprobe_duration: 0.0 when ffprobe is missing or fails *)
Durations == {0, 10}
(* The time= value of a line of ffmpeg's output in seconds, -1 for a line  *)
(* without one.                                                            *)
LineTimes == {-1, 5, 10}

(* _run_cmd_with_progress up to Popen: the duration probe, the cmd event,  *)
(* the start of ffmpeg.                                                    *)
WorkerPopen(w) ==
    /\ workers[w].pc = "cmd"
    /\ UNCHANGED workerFrame
    /\ UNCHANGED <<clock, files>>
    /\ \E d \in Durations, started \in BOOLEAN :
          IF started
          THEN /\ ui_queue' = Append(ui_queue, CmdEvent(w))
               /\ workers' = [workers EXCEPT ![w].duration = d,
                                             ![w]._proc = "running",
                                             ![w].last_pct = RInt(0),
                                             ![w].pc = "lines"]
          ELSE /\ ui_queue' = ui_queue \o
                      <<CmdEvent(w), ErrorEvent(w, "ffmpeg error")>>
               /\ workers' = [workers EXCEPT ![w].duration = d,
                                             ![w].pc = "finally"]

(* A variant of WorkerLine that reports every parsed time, without the     *)
(* comparison with the last value reported.                                *)
WorkerLineReportsAll(w) ==
    /\ workers[w].pc = "lines"
    /\ workers[w].nlines < MaxLines
    /\ UNCHANGED workerFrame
    /\ UNCHANGED <<clock, files>>
    /\ LET me == workers[w]
       IN  \E t \in LineTimes :
              LET pct == RMin(RInt(100), Rat(t * 100, me.duration))
                  report == t # -1 /\ me.duration > 0
              IN  /\ ui_queue' = ui_queue \o <<LogEvent(w, "line")>> \o
                         (IF report
                          THEN <<ProgressEvent(w, me.task.id, pct)>>
                          ELSE <<>>)
                  /\ workers' = [workers EXCEPT
                         ![w].nlines = @ + 1,
                         ![w].last_pct = IF report THEN pct ELSE @]

(* One pass of `for line in proc.stdout`. *)
WorkerLine(w) ==
    /\ workers[w].pc = "lines"
    /\ workers[w].nlines < MaxLines
    /\ UNCHANGED workerFrame
    /\ UNCHANGED <<clock, files>>
    /\ LET me == workers[w]
       IN  \E t \in LineTimes :
              LET pct == RMin(RInt(100), Rat(t * 100, me.duration))
                  report == /\ t # -1
                            /\ me.duration > 0
                            /\ \/ RLe(Rat(1, 2), RSub(pct, me.last_pct))
                               \/ pct = RInt(100)
              IN  /\ ui_queue' = ui_queue \o <<LogEvent(w, "line")>> \o
                         (IF report
                          THEN <<ProgressEvent(w, me.task.id, pct)>>
                          ELSE <<>>)
                  /\ workers' = [workers EXCEPT
                         ![w].nlines = @ + 1,
                         ![w].last_pct = IF report THEN pct ELSE @]

(* The output of ffmpeg ends and proc.wait() returns: the exit code of     *)
(* ffmpeg, or -9 (SIGKILL) for a process stop_all has killed.              *)
WorkerWait(w) ==
    /\ workers[w].pc = "lines"
    /\ UNCHANGED workerFrame
    /\ UNCHANGED clock
    /\ LET me == workers[w]
       IN  \E rc \in (IF me._proc = "killed" THEN {-9} ELSE {0, 1}) :
              /\ IF rc # 0
                 THEN /\ ui_queue' = Append(ui_queue,
                                            ErrorEvent(w, "ffmpeg returned"))
                      /\ UNCHANGED files
                 ELSE /\ ui_queue' = Append(ui_queue,
                             ProgressEvent(w, me.task.id, RInt(100)))
                      /\ files' = WriteFile(files, me.cmd.out,
                             Content(me.cmd.codec, me.cmd.i.name,
                                     MediaFrames(me.cmd.i), me.cmd.af))
              /\ workers' = [workers EXCEPT ![w]._proc = "exited",
                                            ![w].rc = <<rc>>,
                                            ![w].pc = "finally"]

(* A variant of WorkerFinally that puts the done event at the end of the   *)
(* try block, so a run that reported an error ends without it.             *)
WorkerFinallyUnlessError(w) ==
    /\ workers[w].pc = "finally"
    /\ UNCHANGED workerFrame
    /\ UNCHANGED <<clock, files>>
    /\ ui_queue' = IF \E i \in 1..Len(ui_queue) :
                         ui_queue[i].src = w /\ ui_queue[i].typ = "error"
                   THEN ui_queue
                   ELSE Append(ui_queue, DoneEvent(w, workers[w].task.id))
    /\ workers' = [workers EXCEPT ![w].pc = "finished"]

(* The finally clause of Worker.run. *)
WorkerFinally(w) ==
    /\ workers[w].pc = "finally"
    /\ UNCHANGED workerFrame
    /\ UNCHANGED <<clock, files>>
    /\ ui_queue' = Append(ui_queue, DoneEvent(w, workers[w].task.id))
    /\ workers' = [workers EXCEPT ![w].pc = "finished"]

(* The Worker threads registered in _workers. *)
Registered == {_workers[id] : id \in DOMAIN _workers}

(* UnifiedApp.stop_all: kill the process of every registered Worker that   *)
(* holds one, then clear the registry.  The threads themselves go on.      *)
StopAll ==
    /\ UNCHANGED otherThanApp
    /\ _workers # <<>>
    /\ Len(workers) < MaxStarted
    /\ workers' = [w \in 1..Len(workers) |->
                      IF w \in Registered /\ workers[w]._proc = "running"
                      THEN [workers[w] EXCEPT !._proc = "killed"]
                      ELSE workers[w]]
    /\ _workers' = <<>>
    /\ UNCHANGED <<bands, ui_queue, clock, _tasks, files>>

NextApp ==
    \/ StartQueue
    \/ Tick
    \/ \E w \in 1..Len(workers) : WorkerRun(w)
    \/ \E w \in 1..Len(workers) : WorkerDecode(w)
    \/ \E w \in 1..Len(workers) : WorkerConvolve(w)
    \/ \E w \in 1..Len(workers) : WorkerEncode(w)
    \/ \E w \in 1..Len(workers) : WorkerCleanup(w)
    \/ \E w \in 1..Len(workers) : WorkerPopen(w)
    \/ \E w \in 1..Len(workers) : WorkerLine(w)
    \/ \E w \in 1..Len(workers) : WorkerWait(w)
    \/ \E w \in 1..Len(workers) : WorkerFinally(w)

SpecApp == InitApp /\ [][NextApp]_vars

(* The application with one export in its queue and the Stop button: a FIR *)
(* export or a conversion by one ffmpeg.                                   *)
StopExports ==
    {Export(UserPath("a", "opus"), UserPath("a_eq", "wav"), TRUE, TRUE, "t1"),
     Export(UserPath("d", "mp3"), UserPath("d_out", "wav"), TRUE, FALSE, "t4")}

InitStop ==
    /\ ConvIdle
    /\ EditIdle
    /\ ui_queue = <<>>
    /\ bands = _build_default_bands
    /\ n_taps = 0
    /\ dsp_pc = "idle"
    /\ eff_out = <<>>
    /\ H_out = <<>>
    /\ fir_out = <<>>
    /\ clock = 0
    /\ _tasks \in {TasksOf(<<x>>) : x \in StopExports}
    /\ _workers = <<>>
    /\ workers = <<>>
    /\ files = <<>>

NextStop == NextApp \/ StopAll

SpecStop == InitStop /\ [][NextStop]_vars

---------------------------------------------------------------------------
(* Properties of overlap_add_convolve_wav, checked under SpecConv. *)

(* The direct (non-blocked) linear convolution of channel ch of x with h,  *)
(* at output index k (0-based), and the whole clamped result.              *)
RECURSIVE DirectSum(_, _, _, _, _)
DirectSum(x, ch, h, k, i) ==
    IF i = 0 THEN 0
    ELSE (IF k - (i - 1) >= 0 /\ k - (i - 1) < Len(h)
          THEN x[i][ch] * h[k - (i - 1) + 1] ELSE 0)
         + DirectSum(x, ch, h, k, i - 1)

DirectConvClamped(x, h, n) ==
    [k \in 1..(Len(x) + Len(h) - 1) |->
        [c \in 1..n |-> Clip16(DirectSum(x, c, h, k - 1, Len(x)))]]

WithinOneLSB(A, D) ==
    /\ Len(A) = Len(D)
    /\ \A k \in 1..Len(A) : \A c \in 1..Len(D[k]) : Abs(A[k][c] - D[k][c]) <= 1

(* C1: when a run on 16-bit input completes, the frames written (the       *)
(* blocks, then the flushed tail) equal the clamped direct convolution of  *)
(* the input with the filter, per channel, within one LSB.                 *)
C1_OutputEqualsDirect ==
    (sw = 2 /\ cpc = "done") =>
        WithinOneLSB(out_frames, DirectConvClamped(in_frames, fir, nch))

(* C2: on 16-bit input and a non-empty filter the run never raises,        *)
(* whatever the block lengths read.                                        *)
C2_NeverRaises == (sw = 2 /\ Len(fir) >= 1) => cpc # "raised"

(* C6: if the sample width is not 2 the call raises before any processing: *)
(* no frame read, no frame written, output not opened, no event put.       *)
C6_RejectedBeforeProcessing ==
    (sw # 2 /\ cpc # "start") =>
        /\ cpc = "raised"
        /\ exc = "RuntimeError"
        /\ rpos = 0
        /\ out_frames = <<>>
        /\ ~out_opened
        /\ ui_queue = <<>>

C6_Witness == sw # 2 /\ cpc = "raised" /\ Len(in_frames) > 0

(* C7: the progress values of one session are non-decreasing in the order  *)
(* they were put.                                                          *)
C7_ProgressMonotone ==
    \A i \in 1..Len(ui_queue) : \A j \in 1..Len(ui_queue) :
        (i < j /\ ui_queue[i].typ = "progress" /\ ui_queue[j].typ = "progress")
            => RLe(ui_queue[i].pct, ui_queue[j].pct)

C7_Witness ==
    /\ cpc = "done"
    /\ Len(ui_queue) >= 3
    /\ ui_queue[1].pct # ui_queue[2].pct

(* The number of blocks a complete run reads. *)
NBlocks == (Len(in_frames) + block_size - 1) \div block_size

---------------------------------------------------------------------------
(* Properties of the band chain and the DSP functions, under SpecDsp. *)

(* Whether band i of the chain belongs to the effective set as the claim   *)
(* defines it. *)
Kept(bs, i) ==
    IF \E k \in 1..Len(bs) : bs[k].solo THEN bs[i].solo ELSE ~bs[i].muted
KeptBefore(bs, i) == Cardinality({k \in 1..i : Kept(bs, k)})

(* C3: the effective set is exactly the solo bands if any band is soloed   *)
(* (muted or not), otherwise exactly the unmuted bands, in chain order.    *)
C3_EffectiveSet ==
    dsp_pc = "effective" =>
        /\ Len(eff_out) = KeptBefore(bands, Len(bands))
        /\ \A i \in 1..Len(bands) :
              Kept(bands, i) => eff_out[KeptBefore(bands, i)] = bands[i]

C3_Witness ==
    /\ dsp_pc = "effective"
    /\ Len(bands) = 2
    /\ bands[2].solo /\ bands[2].muted
    /\ ~bands[1].solo /\ ~bands[1].muted
    /\ eff_out = <<bands[2]>>

(* C4: for a band of any kind the response it contributes with invert set  *)
(* is the negation of its response with invert clear, at every frequency.  *)
C4_InvertNegates ==
    (dsp_pc = "response" /\ Len(bands) = 1) =>
        \A i \in 1..Len(QueryFreqs) :
            compute_total_response(
                <<[bands[1] EXCEPT !.invert = ~bands[1].invert]>>,
                QueryFreqs[i], FS) = CNeg(H_out[i])

(* C5: the coefficients designed from an empty band list sum to 1 within   *)
(* 1e-6.                                                                   *)
C5_IdentityFirSumsToOne ==
    (dsp_pc = "design" /\ bands = <<>>) =>
        RLe(RAbs(RSub(RSum(fir_out, Len(fir_out)), RInt(1))), Rat(1, 1000000))

---------------------------------------------------------------------------
(* Properties of the Worker threads and the temp files, under SpecApp. *)

(* The events Worker w has put, oldest first. *)
PutBy(w) == SelectSeq(ui_queue, LAMBDA e : e.src = w)

ConvolutionFailed(w) ==
    \E i \in 1..Len(PutBy(w)) :
        PutBy(w)[i].typ = "error" /\ PutBy(w)[i].text = "Convolution failed"

RunsFirPipeline(w) ==
    /\ workers[w].task.action = "apply_eq"
    /\ OptGet(workers[w].task.options, "use_fir", FALSE)

(* C9: a Worker whose streaming convolution failed stops at once: it puts  *)
(* exactly one error event, only the done event of its task after it, no   *)
(* 'FIR export complete' log, it never enters the encode/move or cleanup   *)
(* step, and it has called the convolution exactly once.                   *)
C9_ConvolutionFailureIsFinal ==
    \A w \in 1..Len(workers) :
        ConvolutionFailed(w) =>
            LET ev == PutBy(w)
                tr == workers[w].trace
            IN  /\ Cardinality({i \in 1..Len(ev) : ev[i].typ = "error"}) = 1
                /\ \A i, j \in 1..Len(ev) :
                       (ev[i].typ = "error" /\ i < j) =>
                           /\ ev[j].typ = "done"
                           /\ ev[j].task = workers[w].task.id
                           /\ j = Len(ev)
                /\ \A i \in 1..Len(ev) : ev[i].text # "FIR export complete"
                /\ Len(tr) > 0 /\ tr[Len(tr)] = "convolve"
                /\ Cardinality({i \in 1..Len(tr) : tr[i] = "convolve"}) = 1
                /\ workers[w].pc \in {"finally", "finished"}
                /\ workers[w].task.output_path \notin DOMAIN files

C9_Witness ==
    \E w \in 1..Len(workers) :
        /\ ConvolutionFailed(w)
        /\ workers[w].pc = "finished"
        /\ workers[w].tmp_conv \in DOMAIN files
        /\ files[workers[w].tmp_conv].of = workers[w].task.input_path.name

(* Two FIR runs in flight never hold the same temp path. *)
TempPathsApart ==
    \A v, w \in 1..Len(workers) :
        (/\ v # w
         /\ workers[v].pc \in {"decode", "convolve", "encode", "cleanup"}
         /\ workers[w].pc \in {"decode", "convolve", "encode", "cleanup"})
            => /\ workers[v].tmp_dec # workers[w].tmp_dec
               /\ \/ workers[v].tmp_conv = NoPath
                  \/ workers[v].tmp_conv # workers[w].tmp_conv

(* A FIR run that logged its completion has written its output, and the    *)
(* output is the filtered audio of its own input.                          *)
OutputFromOwnInput ==
    \A w \in 1..Len(workers) :
        (/\ RunsFirPipeline(w)
         /\ \E i \in 1..Len(PutBy(w)) :
                PutBy(w)[i].text = "FIR export complete")
            => /\ workers[w].task.output_path \in DOMAIN files
               /\ files[workers[w].task.output_path].of =
                      workers[w].task.input_path.name

(* C10: concurrent FIR runs share no per-run state, the temp files they    *)
(* read and write included, and the output of each depends only on its     *)
(* own input.                                                              *)
C10_FirRunsIsolated == TempPathsApart /\ OutputFromOwnInput

(* C11: every event on the channel carries the id of the task of the       *)
(* Worker that put it.                                                     *)
C11_EventsCarryTaskId ==
    \A i \in 1..Len(ui_queue) :
        /\ ui_queue[i].task # ""
        /\ ui_queue[i].task = workers[ui_queue[i].src].task.id

---------------------------------------------------------------------------
(* Further properties of overlap_add_convolve_wav, under SpecConv. *)

(* C12: while a run proceeds every block of m frames read has caused m     *)
(* frames to be written, and a completed run has written the input length  *)
(* plus L - 1 frames.                                                      *)
C12_OutputLength ==
    /\ (sw = 2 /\ cpc = "loop") => Len(out_frames) = rpos
    /\ (sw = 2 /\ cpc = "done") =>
           Len(out_frames) = Len(in_frames) + Len(fir) - 1

(* Whether the sample s is the value v brought into the range the code     *)
(* clips to: v itself inside the range, the nearer bound outside it.       *)
Saturated(s, v) ==
    /\ (v > 32767) => s = 32767
    /\ (v < -32767) => s = -32767
    /\ (v >= -32767 /\ v <= 32767) => s = v

(* C13: every sample written lies in the signed 16-bit range; the samples  *)
(* of the first block are the saturated sums of products, and the flushed  *)
(* tail is the saturated carried tail: no sample wraps around.             *)
C13_SamplesSaturate ==
    /\ \A k \in 1..Len(out_frames) : \A c \in 1..Len(out_frames[k]) :
           out_frames[k][c] >= -32768 /\ out_frames[k][c] <= 32767
    /\ \A k \in 1..Min(Len(out_frames), Min(block_size, Len(in_frames))) :
           \A c \in 1..nch :
               Saturated(out_frames[k][c],
                         DirectSum(in_frames, c, fir, k - 1, Len(in_frames)))
    /\ cpc = "done" =>
           \A k \in 1..Len(overlap) : \A c \in 1..nch :
               Saturated(out_frames[Len(out_frames) - Len(overlap) + k][c],
                         overlap[k][c])

C13_Witness ==
    /\ cpc = "done"
    /\ \E c \in 1..nch :
          DirectSum(in_frames, c, fir, 0, Len(in_frames)) < -32768
    /\ \E k \in 1..Len(overlap) : \E c \in 1..nch :
          /\ overlap[k][c] > 32767
          /\ out_frames[Len(out_frames) - Len(overlap) + k][c] = 32767

---------------------------------------------------------------------------
(* Further properties of the DSP functions, under SpecDsp. *)

(* The product of the responses of the bands i..Len(bs), last band first. *)
RECURSIVE ProductFrom(_, _, _, _)
ProductFrom(bs, i, f, fs) ==
    IF i > Len(bs) THEN COne
    ELSE CMul(BandResponse(bs[i], f, fs), ProductFrom(bs, i + 1, f, fs))

(* C14: over an empty list the composite response is 1 at every query      *)
(* frequency; over a non-empty list it is the product of the responses of  *)
(* all the bands passed in, muted or not.                                  *)
C14_CompositeIsProduct ==
    dsp_pc = "response" =>
        \A i \in 1..Len(QueryFreqs) :
            /\ bands = <<>> => H_out[i] = COne
            /\ H_out[i] = ProductFrom(bands, 1, QueryFreqs[i], FS)

C14_Witness ==
    /\ dsp_pc = "response"
    /\ Len(bands) = 2
    /\ bands[1].muted
    /\ \E i \in 1..Len(QueryFreqs) :
          /\ H_out[i] # BandResponse(bands[1], QueryFreqs[i], FS)
          /\ H_out[i] # BandResponse(bands[2], QueryFreqs[i], FS)
          /\ H_out[i] # COne

(* The windowed samples of design_linear_phase_fir before normalization. *)
WindowedSamples(bs, fs, taps) ==
    LET N == IF taps % 2 # 0 THEN taps + 1 ELSE taps
        Sampled == [k \in 1..(N \div 2 + 1) |->
                       compute_total_response(bs, Linspace(k - 1, fs, N), fs)] \o <<>>
        Window(full) == Windowed(full, N)
        Design(H_pos) == WithVal(Mirror(H_pos, N), Window)
    IN  WithVal(Sampled, Design)

(* C15: if the sum s of the windowed samples exceeds 1e-12 in magnitude    *)
(* the coefficients returned are the samples divided by s and sum to 1;    *)
(* otherwise they are the samples themselves.                              *)
C15_ConditionalNormalization ==
    dsp_pc = "design" =>
        LET hw == WindowedSamples(bands, FS, n_taps)
            s == RSum(hw, Len(hw))
        IN  IF GtEps12(RAbs(s))
            THEN /\ RSum(fir_out, Len(fir_out)) = RInt(1)
                 /\ \A n \in 1..Len(hw) : fir_out[n] = RDiv(hw[n], s)
            ELSE fir_out = hw

C15_Witness ==
    /\ dsp_pc = "design"
    /\ bands # <<>>
    /\ RSum(fir_out, Len(fir_out)) = RInt(1)
    /\ \E n \in 1..Len(fir_out) :
          fir_out[n] # WindowedSamples(bands, FS, n_taps)[n]

(* The even tap count the claim has the design use. *)
EvenTaps(n) == IF n % 2 = 1 THEN n + 1 ELSE n

(* The full spectrum as the claim builds it: bins 0..N/2 sampled on the    *)
(* frequency grid, bin N-k the conjugate of bin k for k = 1..N/2-1.        *)
HermitianSpectrum(bs, fs, N) ==
    LET Bin(k) == compute_total_response(bs, Linspace(k, fs, N), fs)
    IN  [n \in 1..N |-> IF n - 1 <= N \div 2 THEN Bin(n - 1)
                        ELSE CConj(Bin(N - (n - 1)))] \o <<>>

(* C16: the design uses the requested tap count if even and the next even  *)
(* integer if odd, returns exactly that many coefficients, and they are    *)
(* the windowed, normalized inverse transform of the Hermitian spectrum of *)
(* that length.                                                            *)
C16_EvenLengthHermitian ==
    dsp_pc = "design" =>
        LET N == EvenTaps(n_taps)
            Normalize(hw) == WithVal(RSum(hw, N), LAMBDA s : Normalized(hw, s))
            Window(full) == WithVal(Windowed(full, N), Normalize)
        IN  /\ N % 2 = 0
            /\ N - n_taps \in {0, 1}
            /\ Len(fir_out) = N
            /\ fir_out = WithVal(HermitianSpectrum(bands, FS, N), Window)

C16_Witness ==
    /\ dsp_pc = "design"
    /\ n_taps = 3
    /\ Len(fir_out) = 4
    /\ fir_out[2] # fir_out[3]

---------------------------------------------------------------------------
(* The FFT size, under SpecConv. *)

IsPowerOfTwo(M) == \E e \in 0..30 : M = 2^e

(* C17: the FFT size of a call is a power of two, at least B + L - 1, and  *)
(* its half is below B + L - 1: the smallest such power of two.            *)
C17_FftSizeIsNextPowerOfTwo ==
    cpc # "idle" =>
        LET x == block_size + Len(fir) - 1
            M == next_pow2(x)
        IN  /\ IsPowerOfTwo(M)
            /\ M >= x
            /\ M < 2 * x
            /\ \A P \in 1..M : (IsPowerOfTwo(P) /\ P >= x) => P = M

C17_Witness ==
    /\ cpc = "done"
    /\ rpos > 0
    /\ block_size + Len(fir) - 1 = 4
    /\ next_pow2(block_size + Len(fir) - 1) = 4

---------------------------------------------------------------------------
(* Further properties of the Worker threads, under SpecApp. *)

HasError(w, text) ==
    \E i \in 1..Len(PutBy(w)) :
        PutBy(w)[i].typ = "error" /\ PutBy(w)[i].text = text

(* Worker w put exactly one error event, only the done event of its task   *)
(* after it, and no completion log.                                        *)
AbortedOnce(w) ==
    LET ev == PutBy(w)
    IN  /\ Cardinality({i \in 1..Len(ev) : ev[i].typ = "error"}) = 1
        /\ \A i, j \in 1..Len(ev) :
               (ev[i].typ = "error" /\ i < j) =>
                   /\ ev[j].typ = "done"
                   /\ ev[j].task = workers[w].task.id
                   /\ j = Len(ev)
        /\ \A i \in 1..Len(ev) : ev[i].text # "FIR export complete"
        /\ workers[w].pc \in {"finally", "finished"}

(* C18: a Worker whose decode or re-encode failed aborts without retry:    *)
(* one error event, no completion log, and the failed stage is the last    *)
(* stage it entered, each stage before it entered once.                    *)
C18_ExternalFailureAborts ==
    \A w \in 1..Len(workers) :
        /\ HasError(w, "ffmpeg decode failed for FIR path") =>
               /\ AbortedOnce(w)
               /\ workers[w].trace = <<"decode">>
               /\ \A i \in 1..Len(PutBy(w)) :
                      PutBy(w)[i].text \notin
                          {"Designing FIR", "Starting overlap-add convolution"}
        /\ HasError(w, "ffmpeg re-encode failed after FIR") =>
               /\ AbortedOnce(w)
               /\ workers[w].trace = <<"decode", "convolve", "encode">>

C18_Witness ==
    \E v, w \in 1..Len(workers) :
        /\ workers[v].pc = "finished"
        /\ workers[w].pc = "finished"
        /\ HasError(v, "ffmpeg decode failed for FIR path")
        /\ HasError(w, "ffmpeg re-encode failed after FIR")

---------------------------------------------------------------------------
(* Band parameters, under SpecDsp. *)

(* C19: no response evaluation and no FIR design returns a result for a    *)
(* chain holding a band of non-positive frequency or non-positive width.   *)
C19_InvalidBandRejected ==
    dsp_pc \in {"response", "design"} =>
        \A i \in 1..Len(bands) :
            bands[i].f > 0 /\ RLt(RInt(0), bands[i].width)

(* C20: the Q a parametric band's response was evaluated with is at least  *)
(* 0.01, in both width modes.                                              *)
C20_QAtLeastOneHundredth ==
    dsp_pc = "response" =>
        \A i \in 1..Len(bands) :
            bands[i].type = "parametric" =>
                RLe(Rat(1, 100), PeakingQ(bands[i], FS))

---------------------------------------------------------------------------
(* Order of the chain, under SpecDsp. *)

(* The chain bs with its bands in the order p, a permutation of its        *)
(* positions.                                                              *)
Reordered(bs, p) == [k \in 1..Len(bs) |-> bs[p[k]]]

(* C21: the composite response does not depend on the order of the bands:  *)
(* at every query frequency the response returned for the chain equals the *)
(* response of every permutation of the same chain.                        *)
C21_OrderIndependent ==
    dsp_pc = "response" =>
        \A p \in Permutations(1..Len(bands)) :
            \A i \in 1..Len(QueryFreqs) :
                compute_total_response(Reordered(bands, p), QueryFreqs[i], FS)
                    = H_out[i]

C21_Witness ==
    /\ dsp_pc = "response"
    /\ Len(bands) = 2
    /\ bands[1].type # bands[2].type
    /\ \E i \in 1..Len(QueryFreqs) :
          /\ BandResponse(bands[1], QueryFreqs[i], FS)
                 # BandResponse(bands[2], QueryFreqs[i], FS)
          /\ H_out[i] # BandResponse(bands[1], QueryFreqs[i], FS)
          /\ H_out[i] # BandResponse(bands[2], QueryFreqs[i], FS)
          /\ H_out[i] = compute_total_response(<<bands[2], bands[1]>>,
                                               QueryFreqs[i], FS)

---------------------------------------------------------------------------
(* The gain of a parametric band at its centre, under SpecDsp. *)

(* |z|^2 of a complex value *)
MagSquared(z) == Rat(z[1] * z[1] + z[2] * z[2], z[3] * z[3])

(* The squared magnitudes that lie within 0.1 dB of g dB:                  *)
(* <<10^((g - 0.1)/10), 10^((g + 0.1)/10)>>, rounded inwards.              *)
WithinTenthDb(g) ==
    CASE g = 0   -> <<Rat(97724, 100000), Rat(102329, 100000)>>
      [] g = 12  -> <<Rat(154882, 10000), Rat(162181, 10000)>>
      [] g = -12 -> <<Rat(61660, 1000000), Rat(64565, 1000000)>>
      [] g = 24  -> <<Rat(245471, 1000), Rat(257039, 1000)>>
      [] g = -24 -> <<Rat(38905, 10000000), Rat(40738, 10000000)>>

(* A parametric band whose centre is not clamped and whose Q lies in       *)
(* [0.1, 10], with a gain in [-24, 24] dB.                                 *)
InEditorRange(b) ==
    /\ b.type = "parametric"
    /\ 1 <= b.f /\ b.f <= FS \div 2 - 1
    /\ -24 <= b.g /\ b.g <= 24
    /\ RLe(Rat(1, 10), PeakingQ(b, FS))
    /\ RLe(PeakingQ(b, FS), RInt(10))

(* C22: the response of a single parametric band in the editor's range,    *)
(* evaluated at its own centre frequency, is G^2 with G = 10^(g/40) (with  *)
(* the sign turned when the band is inverted), a magnitude within 0.1 dB   *)
(* of g dB.                                                                *)
C22_CentreGain ==
    dsp_pc = "response" /\ Len(bands) = 1 /\ InEditorRange(bands[1]) =>
        \A i \in 1..Len(QueryFreqs) :
            QueryFreqs[i] = bands[1].f =>
                LET G == Pow10_40(bands[1].g)
                    G2 == CReal(RMul(G, G))
                    lim == WithinTenthDb(bands[1].g)
                IN  /\ H_out[i] = IF bands[1].invert THEN CNeg(G2) ELSE G2
                    /\ RLe(lim[1], MagSquared(H_out[i]))
                    /\ RLe(MagSquared(H_out[i]), lim[2])

C22_Witness ==
    /\ dsp_pc = "response"
    /\ Len(bands) = 1
    /\ InEditorRange(bands[1])
    /\ bands[1].g = 24
    /\ PeakingQ(bands[1], FS) = Rat(1, 10)
    /\ \E i \in 1..Len(QueryFreqs) :
          /\ QueryFreqs[i] = bands[1].f
          /\ MagSquared(H_out[i]) = RInt(256)

---------------------------------------------------------------------------
(* The carried tail across blocks, under SpecConv. *)

(* C23: in a block step that completes, no sample of the carried tail is   *)
(* lost: row k of the previous tail is added to row k of the block result  *)
(* and the sum is either written (k within the m frames of the block) or   *)
(* carried as row k - m of the new tail (k beyond them).                   *)
C23_TailCarried ==
    [][(cpc = "loop" /\ cpc' = "loop" /\ rpos' > rpos) =>
          LET m == rpos' - rpos
              data == Slice(in_frames, rpos, rpos')
              N == next_pow2(block_size + Len(fir) - 1)
          IN  \A k \in 1..Len(overlap) : \A c \in 1..nch :
                  LET sum == YRow(data, fir, N, nch, k - 1)[c] + overlap[k][c]
                  IN  IF k <= m
                      THEN out_frames'[Len(out_frames) + k][c] = Clip16(sum)
                      ELSE overlap'[k - m][c] = sum]_vars

(* C24: whenever the loop is about to read a block, and at the flush, the  *)
(* carried tail has exactly L - 1 rows of nch samples, all zero before the *)
(* first block; the transform size is at least m + L - 1 for the block of  *)
(* m frames read next, so the slice taken as the new tail has L - 1 rows   *)
(* and the zero-padding branch does not run.                               *)
C24_TailHasLMinusOneRows ==
    cpc \in {"loop", "done"} =>
        /\ Len(overlap) = Len(fir) - 1
        /\ \A k \in 1..Len(overlap) : Len(overlap[k]) = nch
        /\ rpos = 0 => overlap = Zeros(Len(fir) - 1, nch)
        /\ (cpc = "loop" /\ rpos < Len(in_frames)) =>
              LET data == Slice(in_frames, rpos, rpos + block_size)
                  st == BlockStep(data, overlap, fir, block_size, nch)
              IN  /\ next_pow2(block_size + Len(fir) - 1)
                         >= Len(data) + Len(fir) - 1
                  /\ ~st.padded
                  /\ Len(st.overlap) = Len(fir) - 1

C24_Witness ==
    /\ cpc = "loop"
    /\ Len(fir) = 3
    /\ 0 < rpos /\ rpos < Len(in_frames)
    /\ Len(in_frames) - rpos < block_size
    /\ overlap # Zeros(2, nch)
    /\ ~BlockStep(Slice(in_frames, rpos, rpos + block_size), overlap, fir,
                  block_size, nch).padded

---------------------------------------------------------------------------
(* The end of a Worker's run, under SpecApp. *)

(* The positions of the done events among the events Worker w has put. *)
DonePositions(w) == {i \in 1..Len(PutBy(w)) : PutBy(w)[i].typ = "done"}

(* C26: a Worker that has ended its run has put exactly one done event, a  *)
(* Worker still running has put none; the done event carries the id of the *)
(* Worker's task and is the last event the Worker put, whether the run     *)
(* succeeded, reported an error, returned early or raised.                 *)
C26_OneDoneLast ==
    \A w \in 1..Len(workers) :
        /\ Cardinality(DonePositions(w))
               = IF workers[w].pc = "finished" THEN 1 ELSE 0
        /\ \A i \in DonePositions(w) :
               /\ i = Len(PutBy(w))
               /\ PutBy(w)[i].task = workers[w].task.id

C26_Witness ==
    \E v, w \in 1..Len(workers) :
        /\ workers[v].pc = "finished"
        /\ workers[w].pc = "finished"
        /\ HasError(v, "Worker exception")
        /\ \E i \in 1..Len(PutBy(w)) : PutBy(w)[i].text = "FIR export complete"
        /\ \A i \in 1..Len(PutBy(w)) : PutBy(w)[i].typ # "error"
        /\ PutBy(v)[Len(PutBy(v))] = DoneEvent(v, workers[v].task.id)
        /\ PutBy(w)[Len(PutBy(w))] = DoneEvent(w, workers[w].task.id)

---------------------------------------------------------------------------
(* The equalizer in export tasks, under SpecApp. *)

(* The filtering the output of Worker w's task went through if the bands   *)
(* handed to the Worker were applied: the FIR designed from them when      *)
(* use_fir is set, the ffmpeg filter chain built from them otherwise.      *)
EqOf(w) ==
    LET t == workers[w].task
    IN  IF OptGet(t.options, "use_fir", FALSE)
        THEN <<FirOf(workers[w].bands, OptGet(t.options, "sr", FS),
                     OptGet(t.options, "n_taps", DEFAULT_N_TAPS))>>
        ELSE build_ffmpeg_filter(workers[w].bands)

(* C29: the output written by a Worker that ended without an error, for a  *)
(* task created with use_eq set, went through the effective bands: its     *)
(* filtering is not empty and is the one of the bands the Worker was       *)
(* handed, whatever the types of the input and the output.                 *)
C29_EqApplied ==
    \A w \in 1..Len(workers) :
        (/\ workers[w].pc = "finished"
         /\ OptGet(workers[w].task.options, "use_eq", TRUE)
         /\ \A i \in 1..Len(PutBy(w)) : PutBy(w)[i].typ # "error"
         /\ workers[w].task.output_path \in DOMAIN files) =>
            /\ workers[w].bands # <<>>
            /\ files[workers[w].task.output_path].filt # <<>>
            /\ files[workers[w].task.output_path].filt = EqOf(w)

---------------------------------------------------------------------------
(* One external-command run, under SpecApp. *)

(* Worker w runs its task through _run_cmd_with_progress, and the call has *)
(* returned.                                                               *)
RunsCmd(w) == workers[w].pc \in {"cmd", "lines"} \/ workers[w].cmd # NoCmd
CmdEnded(w) == workers[w].cmd # NoCmd /\ workers[w].pc \in {"finally", "finished"}

(* The events of the call, and its progress and error events. *)
RunEvents(w) == SelectSeq(PutBy(w), LAMBDA e : e.typ # "done")
ProgressOf(w) == SelectSeq(PutBy(w), LAMBDA e : e.typ = "progress")
ErrorsOf(w) == SelectSeq(PutBy(w), LAMBDA e : e.typ = "error")

ProgressBounded(w) ==
    LET P == ProgressOf(w)
    IN  /\ \A i \in 1..Len(P) : RLe(P[i].pct, RInt(100))
        /\ \A i, j \in 1..Len(P) : i < j => RLe(P[i].pct, P[j].pct)

(* C30 as stated: the progress values of a run are non-decreasing and at   *)
(* most 100, and a run that ended has a progress event of 100 if and only  *)
(* if the process exited with code 0; otherwise it has exactly one error   *)
(* event, and a successful run has none.                                   *)
C30_CompletionIffSuccess ==
    \A w \in 1..Len(workers) :
        RunsCmd(w) =>
            /\ ProgressBounded(w)
            /\ CmdEnded(w) =>
                  /\ workers[w].rc = <<0>>
                         <=> \E i \in 1..Len(ProgressOf(w)) :
                                 ProgressOf(w)[i].pct = RInt(100)
                  /\ Len(ErrorsOf(w)) = IF workers[w].rc = <<0>> THEN 0 ELSE 1

(* C30, amended: the progress values of a run are non-decreasing and at    *)
(* most 100; a run puts no error event before it ends, and the last event  *)
(* of a run that ended is its outcome: a progress event of 100 for the     *)
(* task if the process exited with code 0, otherwise the only error event  *)
(* of the run ('ffmpeg returned' after a non-zero exit, 'ffmpeg error'     *)
(* after an exception).  A progress event of 100 may precede the outcome.  *)
C30_OutcomeIsLastEvent ==
    \A w \in 1..Len(workers) :
        RunsCmd(w) =>
            /\ ProgressBounded(w)
            /\ ~CmdEnded(w) => Len(ErrorsOf(w)) = 0
            /\ CmdEnded(w) =>
                  LET ev == RunEvents(w)
                      last == ev[Len(ev)]
                  IN  /\ Len(ErrorsOf(w))
                             = IF workers[w].rc = <<0>> THEN 0 ELSE 1
                      /\ workers[w].rc = <<0>> =>
                             last = ProgressEvent(w, workers[w].task.id, RInt(100))
                      /\ workers[w].rc # <<0>> =>
                             /\ last.typ = "error"
                             /\ last.text = IF workers[w].rc = <<>>
                                            THEN "ffmpeg error"
                                            ELSE "ffmpeg returned"

C30_Witness ==
    \E w \in 1..Len(workers) :
        /\ CmdEnded(w)
        /\ workers[w].rc = <<1>>
        /\ Len(ProgressOf(w)) = 2
        /\ ProgressOf(w)[1].pct = RInt(50)
        /\ ProgressOf(w)[2].pct = RInt(100)
        /\ RunEvents(w)[Len(RunEvents(w))] = ErrorEvent(w, "ffmpeg returned")

---------------------------------------------------------------------------
(* The Stop button, under SpecStop. *)

(* Worker w was started before a stop_all that has returned: stop_all      *)
(* cleared the registry, and start_queue registers only the threads it     *)
(* starts.                                                                 *)
Stopped(w) == w \notin Registered

(* Worker w has an ffmpeg process running: the one of Popen, or the decode *)
(* of the FIR pipeline inside subprocess.call.                             *)
ExternalProcessRunning(w) ==
    workers[w]._proc = "running" \/ workers[w].pc = "decode"

(* C27: once stop_all has returned, a Worker started before the call has   *)
(* no external process running and puts no further progress event.         *)
C27_StoppedWorkersAreQuiet ==
    [][\A w \in 1..Len(workers) :
           Stopped(w) =>
               /\ ~ExternalProcessRunning(w)'
               /\ \A i \in (Len(ui_queue) + 1)..Len(ui_queue') :
                      ~(ui_queue'[i].src = w /\ ui_queue'[i].typ = "progress")]_vars

(* C28: no two Worker threads were ever started for the same task, and no  *)
(* Worker was started for a task whose action is 'pending'.                *)
C28_OneWorkerPerTask ==
    /\ \A v, w \in 1..Len(workers) :
           v # w => workers[v].task.id # workers[w].task.id
    /\ \A w \in 1..Len(workers) : workers[w].task.action # "pending"

---------------------------------------------------------------------------
(* The band editor, A/B and the bands handed to the Workers.               *)
(*                                                                         *)
(* Band is a mutable dataclass, and the editor changes the fields of the   *)
(* objects of self.bands in place.  Here the Band objects live in `heap`,  *)
(* by identity, and `bands`, the list of a Worker and the lists saved as A *)
(* and B hold identities, so that two lists holding the same object see    *)
(* each other's changes.  Every list of the code is built by a list        *)
(* comprehension or a literal, which makes a new list.                     *)

MaxEdits == 4
MaxObjects == 6

(* The fields of the objects a list of identities holds. *)
Deref(h, refs) == [i \in 1..Len(refs) |-> h[refs[i]]]

(* The identities of k objects allocated after the n existing ones. *)
NewRefs(n, k) == [i \in 1..k |-> n + i]

(* A variant of CopyBands without the b.copy(): the list holds the same    *)
(* objects.                                                                *)
CopyBandsShared(h, refs) == [heap |-> h, refs |-> refs]

(* [b.copy() for b in refs]: Band.copy builds a new object with the same   *)
(* fields.                                                                 *)
CopyBands(h, refs) ==
    [heap |-> h \o Deref(h, refs), refs |-> NewRefs(Len(h), Len(refs))]

(* UnifiedApp._effective_bands on the live objects: the copies of the solo *)
(* bands if any is soloed, else of the unmuted ones.                       *)
EffectiveCopies(h, refs) ==
    LET objs == [i \in 1..Len(refs) |->
                    [oid |-> refs[i], muted |-> h[refs[i]].muted,
                     solo |-> h[refs[i]].solo]]
        kept == _effective_bands(objs)
    IN  CopyBands(h, [i \in 1..Len(kept) |-> kept[i].oid])

(* UnifiedApp.start_queue over the live objects, from task i of the list   *)
(* on: the threads, the registry and the heap after the loop.              *)
RECURSIVE StartTasksOnHeap(_, _, _, _, _, _)
StartTasksOnHeap(ts, i, thr, reg, h, chain) ==
    IF i > Len(ts) THEN [workers |-> thr, _workers |-> reg, heap |-> h]
    ELSE LET t == ts[i]
         IN  IF /\ t.action \in {"apply_eq", "extract_audio", "convert_video",
                                 "convert_audio"}
                /\ t.id \notin DOMAIN reg
             THEN LET bands_eff == IF OptGet(t.options, "use_eq", TRUE)
                                   THEN EffectiveCopies(h, chain)
                                   ELSE [heap |-> h, refs |-> <<>>]
                  IN  StartTasksOnHeap(ts, i + 1,
                                       Append(thr, Worker(t, bands_eff.refs)),
                                       (t.id :> Len(thr) + 1) @@ reg,
                                       bands_eff.heap, chain)
             ELSE StartTasksOnHeap(ts, i + 1, thr, reg, h, chain)

(* Band(): the defaults of the dataclass *)
DefaultBand == Band("parametric", 1000, "q", RInt(1), 0, FALSE, FALSE, FALSE)

(* The chains the editor starts from: one added band, or two bands with    *)
(* the second one soloed.                                                  *)
EditChains ==
    {<<DefaultBand>>,
     <<Band("highpass", 60, "q", RInt(1), 0, FALSE, FALSE, FALSE),
       Band("lowpass", 15000, "q", RInt(1), 0, FALSE, TRUE, FALSE)>>}

(* The values written into the entry fields: _set_band(idx, field, value) *)
SetBandInputs ==
    {<<"type", "lowpass">>, <<"f", 6508>>, <<"width", RInt(2)>>, <<"g", 12>>}

(* The band lists of the preset files. *)
Presets ==
    {<<>>, <<Band("parametric", 6508, "oct", RInt(2), -12, FALSE, FALSE, FALSE)>>}

EditExports == {<<x>> : x \in StopExports} \cup
    {<<Export(UserPath("c", "opus"), UserPath("c_eq", "flac"), FALSE, TRUE, "t3")>>}

InitEdit ==
    /\ ConvIdle
    /\ ui_queue = <<>>
    /\ n_taps = 0
    /\ dsp_pc = "idle"
    /\ eff_out = <<>>
    /\ H_out = <<>>
    /\ fir_out = <<>>
    /\ clock = 0
    /\ files = <<>>
    /\ _tasks \in {TasksOf(xs) : xs \in EditExports}
    /\ _workers = <<>>
    /\ workers = <<>>
    /\ heap \in EditChains
    /\ bands = NewRefs(0, Len(heap))
    /\ ab_a = <<>>
    /\ ab_b = <<>>
    /\ _ab_state = ""
    /\ edits = 0

(* What an operation of the editor leaves alone. *)
editorFrame == <<otherThanEdit, _tasks, _workers, workers>>

EditStartQueue ==
    /\ UNCHANGED otherThanEdit
    /\ LET st == StartTasksOnHeap(_tasks, 1, workers, _workers, heap, bands)
       IN  /\ Len(st.heap) <= MaxObjects
           /\ workers' = st.workers
           /\ _workers' = st._workers
           /\ heap' = st.heap
    /\ UNCHANGED <<bands, _tasks, ab_a, ab_b, _ab_state, edits>>

(* UnifiedApp._set_band *)
SetBand ==
    /\ edits < MaxEdits
    /\ UNCHANGED editorFrame
    /\ \E idx \in 1..Len(bands), fv \in SetBandInputs :
          heap' = [heap EXCEPT ![bands[idx]] = [@ EXCEPT ![fv[1]] = fv[2]]]
    /\ edits' = edits + 1
    /\ UNCHANGED <<bands, ab_a, ab_b, _ab_state>>

(* UnifiedApp._toggle_mute, _toggle_solo, _toggle_invert *)
ToggleMute ==
    /\ edits < MaxEdits
    /\ UNCHANGED editorFrame
    /\ \E idx \in 1..Len(bands) :
          heap' = [heap EXCEPT ![bands[idx]].muted = ~@]
    /\ edits' = edits + 1
    /\ UNCHANGED <<bands, ab_a, ab_b, _ab_state>>

ToggleSolo ==
    /\ edits < MaxEdits
    /\ UNCHANGED editorFrame
    /\ \E idx \in 1..Len(bands) :
          heap' = [heap EXCEPT ![bands[idx]].solo = ~@]
    /\ edits' = edits + 1
    /\ UNCHANGED <<bands, ab_a, ab_b, _ab_state>>

ToggleInvert ==
    /\ edits < MaxEdits
    /\ UNCHANGED editorFrame
    /\ \E idx \in 1..Len(bands) :
          heap' = [heap EXCEPT ![bands[idx]].invert = ~@]
    /\ edits' = edits + 1
    /\ UNCHANGED <<bands, ab_a, ab_b, _ab_state>>

(* UnifiedApp.add_band *)
AddBand ==
    /\ edits < MaxEdits
    /\ Len(heap) < MaxObjects
    /\ UNCHANGED editorFrame
    /\ heap' = Append(heap, DefaultBand)
    /\ bands' = Append(bands, Len(heap) + 1)
    /\ edits' = edits + 1
    /\ UNCHANGED <<ab_a, ab_b, _ab_state>>

(* UnifiedApp._remove_band *)
RemoveBand ==
    /\ edits < MaxEdits
    /\ UNCHANGED editorFrame
    /\ \E idx \in 1..Len(bands) :
          bands' = SubSeq(bands, 1, idx - 1) \o SubSeq(bands, idx + 1, Len(bands))
    /\ edits' = edits + 1
    /\ UNCHANGED <<heap, ab_a, ab_b, _ab_state>>

(* UnifiedApp.load_preset with a file chosen *)
LoadPreset ==
    /\ edits < MaxEdits
    /\ UNCHANGED editorFrame
    /\ \E payload \in Presets :
          /\ Len(heap) + Len(payload) <= MaxObjects
          /\ heap' = heap \o payload
          /\ bands' = NewRefs(Len(heap), Len(payload))
    /\ edits' = edits + 1
    /\ UNCHANGED <<ab_a, ab_b, _ab_state>>

(* UnifiedApp.save_ab_a, save_ab_b *)
SaveAbA ==
    /\ edits < MaxEdits
    /\ UNCHANGED editorFrame
    /\ LET c == CopyBands(heap, bands)
       IN  /\ Len(c.heap) <= MaxObjects
           /\ heap' = c.heap
           /\ ab_a' = <<c.refs>>
    /\ edits' = edits + 1
    /\ UNCHANGED <<bands, ab_b, _ab_state>>

SaveAbB ==
    /\ edits < MaxEdits
    /\ UNCHANGED editorFrame
    /\ LET c == CopyBands(heap, bands)
       IN  /\ Len(c.heap) <= MaxObjects
           /\ heap' = c.heap
           /\ ab_b' = <<c.refs>>
    /\ edits' = edits + 1
    /\ UNCHANGED <<bands, ab_a, _ab_state>>

(* UnifiedApp.toggle_ab; with A or B missing it only shows a message. *)
ToggleAb ==
    /\ edits < MaxEdits
    /\ UNCHANGED editorFrame
    /\ ab_a # <<>> /\ ab_b # <<>>
    /\ LET c == IF _ab_state = "A" THEN CopyBands(heap, ab_b[1])
                ELSE CopyBands(heap, ab_a[1])
       IN  /\ Len(c.heap) <= MaxObjects
           /\ heap' = c.heap
           /\ bands' = c.refs
    /\ _ab_state' = IF _ab_state = "A" THEN "B" ELSE "A"
    /\ edits' = edits + 1
    /\ UNCHANGED <<ab_a, ab_b>>

NextEdit ==
    \/ EditStartQueue
    \/ SetBand
    \/ ToggleMute
    \/ ToggleSolo
    \/ ToggleInvert
    \/ AddBand
    \/ RemoveBand
    \/ LoadPreset
    \/ SaveAbA
    \/ SaveAbB
    \/ ToggleAb

SpecEdit == InitEdit /\ [][NextEdit]_vars

(* The objects a started Worker holds, and the objects saved as A and B. *)
SnapshotRefs ==
    UNION {{workers[w].bands[i] : i \in 1..Len(workers[w].bands)} :
              w \in 1..Len(workers)}
        \cup UNION {{l[i] : i \in 1..Len(l)} : l \in {ab_a[k] : k \in 1..Len(ab_a)}}
        \cup UNION {{l[i] : i \in 1..Len(l)} : l \in {ab_b[k] : k \in 1..Len(ab_b)}}

(* C25: no operation changes the bands a started Worker holds, nor the     *)
(* bands saved as A or B: the objects they hold keep their fields, the     *)
(* list of a Worker stays the same, a list saved as A or B is replaced     *)
(* only by a list of new objects, and none of these objects is in the live *)
(* chain.                                                                  *)
C25_SnapshotsUnchanged ==
    [][/\ \A r \in SnapshotRefs : heap'[r] = heap[r]
       /\ \A w \in 1..Len(workers) : workers'[w].bands = workers[w].bands
       /\ \A r \in SnapshotRefs : \A i \in 1..Len(bands') : bands'[i] # r
       /\ ab_a' # ab_a => \A i \in 1..Len(ab_a'[1]) : ab_a'[1][i] > Len(heap)
       /\ ab_b' # ab_b => \A i \in 1..Len(ab_b'[1]) : ab_b'[1][i] > Len(heap)]_vars

(* A Worker holds copies of the bands, both lists A and B are saved, and   *)
(* the live chain has since been edited away from all of them.             *)
C25_Witness ==
    /\ Len(workers) = 1
    /\ workers[1].bands # <<>>
    /\ ab_a # <<>> /\ ab_b # <<>>
    /\ Deref(heap, workers[1].bands) # Deref(heap, bands)
    /\ Deref(heap, ab_a[1]) # Deref(heap, bands)
    /\ Deref(heap, ab_b[1]) # Deref(heap, bands)
    /\ Len(bands) = Len(ab_a[1])

===========================================================================
